---- MODULE Spec2Model ----
(***************************************************************************)
(* A model of the news ingestion pipeline of situation-monitor             *)
(* (migration/src): the connectors' fetch loops, the enrich, filter,       *)
(* dedup, sort and store stages of runPipeline, and the pure functions     *)
(* they are built from.                                                    *)
(*                                                                         *)
(* Strings are sequences of one-character strings, so that hashing, case   *)
(* folding and substring search are computed character by character as     *)
(* the code computes them.                                                 *)
(***************************************************************************)
EXTENDS Integers, Sequences, FiniteSets, TLC

(***************************************************************************)
(* Characters and strings                                                  *)
(***************************************************************************)

\* The characters of code 32 to 126, in the order of their codes.  The
\* grave accent (code 96) cannot be written in a string of this language;
\* no string of the model holds it.
AsciiPrintable ==
    <<" ", "!", "\"", "#", "$", "%", "&", "'", "(", ")", "*", "+", ",",
      "-", ".", "/", "0", "1", "2", "3", "4", "5", "6", "7", "8", "9", ":",
      ";", "<", "=", ">", "?", "@", "A", "B", "C", "D", "E", "F", "G", "H",
      "I", "J", "K", "L", "M", "N", "O", "P", "Q", "R", "S", "T", "U", "V",
      "W", "X", "Y", "Z", "[", "\\", "]", "^", "_", "(grave)", "a", "b",
      "c", "d", "e", "f", "g", "h", "i", "j", "k", "l", "m", "n", "o", "p",
      "q", "r", "s", "t", "u", "v", "w", "x", "y", "z", "{", "|", "}", "~">>

CharCodeTable ==
    [c \in {AsciiPrintable[i] : i \in 1..Len(AsciiPrintable)} |->
        31 + CHOOSE i \in 1..Len(AsciiPrintable) : AsciiPrintable[i] = c]

\* String.prototype.charCodeAt for one character.
CharCode(c) == CharCodeTable[c]

LowerCaseTable ==
    [c \in {AsciiPrintable[i] : i \in 34..59} |->
        AsciiPrintable[CharCodeTable[c] + 1]]

\* String.prototype.toLowerCase, one character: "A" to "Z" move up by 32.
LowerChar(c) == IF c \in DOMAIN LowerCaseTable THEN LowerCaseTable[c] ELSE c

toLowerCase(s) == [i \in 1..Len(s) |-> LowerChar(s[i])]

\* The character class [a-z0-9].
IsLowerAlnum(c) ==
    \/ CharCode(c) >= 97 /\ CharCode(c) <= 122
    \/ CharCode(c) >= 48 /\ CharCode(c) <= 57

\* s.replace(/[^a-z0-9]/g, '')
RECURSIVE StripNonAlnum(_)
StripNonAlnum(s) ==
    IF s = <<>> THEN <<>>
    ELSE IF IsLowerAlnum(Head(s)) THEN <<Head(s)>> \o StripNonAlnum(Tail(s))
    ELSE StripNonAlnum(Tail(s))

\* String.prototype.includes: k occurs in text as a contiguous substring.
Includes(text, k) ==
    \E i \in 0..(Len(text) - Len(k)) :
        \A j \in 1..Len(k) : text[i + j] = k[j]

(***************************************************************************)
(* hashCode and generateId.  A 32-bit value is kept as two 16-bit halves   *)
(* <<hi, lo>> so that the wrap-around of the rolling hash is computed      *)
(* exactly.                                                                *)
(***************************************************************************)
Half == 65536

\* One round of the loop: hash = (hash << 5) - hash + char; hash = hash & hash,
\* that is 31 * hash + char reduced to 32 bits.
HashStep(h, c) ==
    LET lo == 31 * h[2] + c
        hi == 31 * h[1] + (lo \div Half)
    IN  <<hi % Half, lo % Half>>

RECURSIVE HashLoop(_, _)
HashLoop(h, s) ==
    IF s = <<>> THEN h ELSE HashLoop(HashStep(h, CharCode(Head(s))), Tail(s))

\* Math.abs of the signed 32-bit value whose bits are h, again as two halves
\* (the magnitude of -2^31 is 2^31, which still fits).
Abs32(h) ==
    IF h[1] < 32768 THEN h
    ELSE IF h[2] = 0 THEN <<Half - h[1], 0>>
    ELSE <<Half - 1 - h[1], Half - h[2]>>

\* Number.prototype.toString(36): the base-36 digits, most significant first.
RECURSIVE ToBase36(_)
ToBase36(h) ==
    LET r1 == h[1] % 36
        t  == r1 * Half + h[2]
        q  == <<h[1] \div 36, t \div 36>>
        d  == t % 36
    IN  IF q = <<0, 0>> THEN <<d>> ELSE ToBase36(q) \o <<d>>

hashCode(str) == ToBase36(Abs32(HashLoop(<<0, 0>>, str)))

\* `${sourceHash}-${urlHash}`; the separator is written as the digit 36.
generateId(url, source) == hashCode(source) \o <<36>> \o hashCode(url)

(***************************************************************************)
(* Timestamps.  published_at is an ISO string "YYYY-MM-DDT00:00:00Z",      *)
(* written as the record of its year, month and day fields.  The           *)
(* connectors build it from the source's fields without checking their     *)
(* ranges (parseGdeltDate inserts separators into "YYYYMMDDThhmmssZ"), so  *)
(* a month of 13 is a string a record can carry.                           *)
(***************************************************************************)
Undefined == "undefined"
IsoDate(y, m, d) == [y |-> y, m |-> m, d |-> d]

IsLeap(y) == (y % 4 = 0 /\ y % 100 # 0) \/ y % 400 = 0

\* Days from the first of January to the first of month m.
DaysBeforeMonth(y, m) ==
    LET common == <<0, 31, 59, 90, 120, 151, 181, 212, 243, 273, 304, 334>>
    IN  common[m] + (IF m > 2 /\ IsLeap(y) THEN 1 ELSE 0)

\* Leap days in the years 1970 .. y-1.
LeapDaysSince1970(y) ==
    LET upTo(n) == (n \div 4) - (n \div 100) + (n \div 400)
    IN  upTo(y - 1) - upTo(1969)

\* new Date(published_at).getTime(), in days since the epoch; ok is FALSE
\* for NaN, the time value of a string that does not parse.
getTime(published_at) ==
    IF published_at.m \in 1..12 /\ published_at.d \in 1..31
    THEN [ok |-> TRUE,
          t  |-> 365 * (published_at.y - 1970) + LeapDaysSince1970(published_at.y)
                   + DaysBeforeMonth(published_at.y, published_at.m)
                   + (published_at.d - 1)]
    ELSE [ok |-> FALSE, t |-> 0]

IsNaN(x) == ~x.ok

(***************************************************************************)
(* Keyword tables (utils/config.ts) and the detectors built on them        *)
(***************************************************************************)
ALERT_KEYWORDS ==
    <<
        <<"w", "a", "r">>,
        <<"i", "n", "v", "a", "s", "i", "o", "n">>,
        <<"m", "i", "l", "i", "t", "a", "r", "y">>,
        <<"n", "u", "c", "l", "e", "a", "r">>,
        <<"s", "a", "n", "c", "t", "i", "o", "n", "s">>,
        <<"m", "i", "s", "s", "i", "l", "e">>,
        <<"a", "t", "t", "a", "c", "k">>,
        <<"t", "r", "o", "o", "p", "s">>,
        <<"c", "o", "n", "f", "l", "i", "c", "t">>,
        <<"s", "t", "r", "i", "k", "e">>,
        <<"b", "o", "m", "b">>,
        <<"c", "a", "s", "u", "a", "l", "t", "i", "e", "s">>,
        <<"c", "e", "a", "s", "e", "f", "i", "r", "e">>,
        <<"t", "r", "e", "a", "t", "y">>,
        <<"n", "a", "t", "o">>,
        <<"c", "o", "u", "p">>,
        <<"m", "a", "r", "t", "i", "a", "l", " ", "l", "a", "w">>,
        <<"e", "m", "e", "r", "g", "e", "n", "c", "y">>,
        <<"a", "s", "s", "a", "s", "s", "i", "n", "a", "t", "i", "o", "n">>,
        <<"t", "e", "r", "r", "o", "r", "i", "s", "t">>,
        <<"h", "o", "s", "t", "a", "g", "e">>,
        <<"e", "v", "a", "c", "u", "a", "t", "i", "o", "n">> >>

REGION_KEYWORDS ==
    <<  [name |-> "EUROPE", keywords |-> <<
            <<"n", "a", "t", "o">>,
            <<"e", "u">>,
            <<"e", "u", "r", "o", "p", "e", "a", "n">>,
            <<"u", "k", "r", "a", "i", "n", "e">>,
            <<"r", "u", "s", "s", "i", "a">>,
            <<"g", "e", "r", "m", "a", "n", "y">>,
            <<"f", "r", "a", "n", "c", "e">>,
            <<"u", "k">>,
            <<"b", "r", "i", "t", "a", "i", "n">>,
            <<"p", "o", "l", "a", "n", "d">> >>],
        [name |-> "MENA", keywords |-> <<
            <<"i", "r", "a", "n">>,
            <<"i", "s", "r", "a", "e", "l">>,
            <<"s", "a", "u", "d", "i">>,
            <<"s", "y", "r", "i", "a">>,
            <<"i", "r", "a", "q">>,
            <<"g", "a", "z", "a">>,
            <<"l", "e", "b", "a", "n", "o", "n">>,
            <<"y", "e", "m", "e", "n">>,
            <<"h", "o", "u", "t", "h", "i">>,
            <<"m", "i", "d", "d", "l", "e", " ", "e", "a", "s", "t">> >>],
        [name |-> "APAC", keywords |-> <<
            <<"c", "h", "i", "n", "a">>,
            <<"t", "a", "i", "w", "a", "n">>,
            <<"j", "a", "p", "a", "n">>,
            <<"k", "o", "r", "e", "a">>,
            <<"i", "n", "d", "o", "-", "p", "a", "c", "i", "f", "i", "c">>,
            <<"s", "o", "u", "t", "h", " ", "c", "h", "i", "n", "a", " ", "s", "e", "a">>,
            <<"a", "s", "e", "a", "n">>,
            <<"p", "h", "i", "l", "i", "p", "p", "i", "n", "e", "s">> >>],
        [name |-> "AMERICAS", keywords |-> <<
            <<"u", "s">>,
            <<"a", "m", "e", "r", "i", "c", "a">>,
            <<"c", "a", "n", "a", "d", "a">>,
            <<"m", "e", "x", "i", "c", "o">>,
            <<"b", "r", "a", "z", "i", "l">>,
            <<"v", "e", "n", "e", "z", "u", "e", "l", "a">>,
            <<"l", "a", "t", "i", "n">> >>],
        [name |-> "AFRICA", keywords |-> <<
            <<"a", "f", "r", "i", "c", "a">>,
            <<"s", "a", "h", "e", "l">>,
            <<"n", "i", "g", "e", "r">>,
            <<"s", "u", "d", "a", "n">>,
            <<"e", "t", "h", "i", "o", "p", "i", "a">>,
            <<"s", "o", "m", "a", "l", "i", "a">> >>] >>

TOPIC_KEYWORDS ==
    <<  [name |-> "CYBER", keywords |-> <<
            <<"c", "y", "b", "e", "r">>,
            <<"h", "a", "c", "k">>,
            <<"r", "a", "n", "s", "o", "m", "w", "a", "r", "e">>,
            <<"m", "a", "l", "w", "a", "r", "e">>,
            <<"b", "r", "e", "a", "c", "h">>,
            <<"a", "p", "t">>,
            <<"v", "u", "l", "n", "e", "r", "a", "b", "i", "l", "i", "t", "y">> >>],
        [name |-> "NUCLEAR", keywords |-> <<
            <<"n", "u", "c", "l", "e", "a", "r">>,
            <<"i", "c", "b", "m">>,
            <<"w", "a", "r", "h", "e", "a", "d">>,
            <<"n", "o", "n", "p", "r", "o", "l", "i", "f", "e", "r", "a", "t", "i", "o", "n">>,
            <<"u", "r", "a", "n", "i", "u", "m">>,
            <<"p", "l", "u", "t", "o", "n", "i", "u", "m">> >>],
        [name |-> "CONFLICT", keywords |-> <<
            <<"w", "a", "r">>,
            <<"m", "i", "l", "i", "t", "a", "r", "y">>,
            <<"t", "r", "o", "o", "p", "s">>,
            <<"i", "n", "v", "a", "s", "i", "o", "n">>,
            <<"s", "t", "r", "i", "k", "e">>,
            <<"m", "i", "s", "s", "i", "l", "e">>,
            <<"c", "o", "m", "b", "a", "t">>,
            <<"o", "f", "f", "e", "n", "s", "i", "v", "e">> >>],
        [name |-> "INTEL", keywords |-> <<
            <<"i", "n", "t", "e", "l", "l", "i", "g", "e", "n", "c", "e">>,
            <<"e", "s", "p", "i", "o", "n", "a", "g", "e">>,
            <<"s", "p", "y">>,
            <<"c", "i", "a">>,
            <<"m", "o", "s", "s", "a", "d">>,
            <<"f", "s", "b">>,
            <<"c", "o", "v", "e", "r", "t">> >>],
        [name |-> "DEFENSE", keywords |-> <<
            <<"p", "e", "n", "t", "a", "g", "o", "n">>,
            <<"d", "o", "d">>,
            <<"d", "e", "f", "e", "n", "s", "e">>,
            <<"m", "i", "l", "i", "t", "a", "r", "y">>,
            <<"a", "r", "m", "y">>,
            <<"n", "a", "v", "y">>,
            <<"a", "i", "r", " ", "f", "o", "r", "c", "e">> >>],
        [name |-> "DIPLO", keywords |-> <<
            <<"d", "i", "p", "l", "o", "m", "a", "t">>,
            <<"e", "m", "b", "a", "s", "s", "y">>,
            <<"t", "r", "e", "a", "t", "y">>,
            <<"s", "a", "n", "c", "t", "i", "o", "n", "s">>,
            <<"t", "a", "l", "k", "s">>,
            <<"s", "u", "m", "m", "i", "t">>,
            <<"b", "i", "l", "a", "t", "e", "r", "a", "l">> >>],
        [name |-> "FINANCE", keywords |-> <<
            <<"f", "e", "d">>,
            <<"i", "n", "t", "e", "r", "e", "s", "t", " ", "r", "a", "t", "e">>,
            <<"i", "n", "f", "l", "a", "t", "i", "o", "n">>,
            <<"g", "d", "p">>,
            <<"u", "n", "e", "m", "p", "l", "o", "y", "m", "e", "n", "t">>,
            <<"r", "e", "c", "e", "s", "s", "i", "o", "n">>,
            <<"r", "a", "l", "l", "y">>,
            <<"c", "r", "a", "s", "h">> >>],
        [name |-> "CRYPTO", keywords |-> <<
            <<"b", "i", "t", "c", "o", "i", "n">>,
            <<"e", "t", "h", "e", "r", "e", "u", "m">>,
            <<"c", "r", "y", "p", "t", "o">>,
            <<"b", "l", "o", "c", "k", "c", "h", "a", "i", "n">>,
            <<"d", "e", "f", "i">>,
            <<"n", "f", "t">>,
            <<"s", "t", "a", "b", "l", "e", "c", "o", "i", "n">> >>],
        [name |-> "TECH", keywords |-> <<
            <<"a", "i">>,
            <<"a", "r", "t", "i", "f", "i", "c", "i", "a", "l", " ", "i", "n", "t", "e", "l", "l", "i", "g", "e", "n", "c", "e">>,
            <<"m", "a", "c", "h", "i", "n", "e", " ", "l", "e", "a", "r", "n", "i", "n", "g">>,
            <<"s", "t", "a", "r", "t", "u", "p">>,
            <<"i", "p", "o">>,
            <<"a", "c", "q", "u", "i", "s", "i", "t", "i", "o", "n">>,
            <<"l", "a", "y", "o", "f", "f">> >>] >>

\* keywords.some((k) => lowerText.includes(k))
SomeIncluded(lowerText, keywords) ==
    \E i \in 1..Len(keywords) : Includes(lowerText, keywords[i])

\* containsAlertKeyword: the first keyword of the list found in the text.
\* A keyword that is undefined is written as the empty string.
containsAlertKeyword(text) ==
    LET lowerText == toLowerCase(text)
        hits == {i \in 1..Len(ALERT_KEYWORDS) : Includes(lowerText, ALERT_KEYWORDS[i])}
    IN  IF hits = {} THEN [is_alert |-> FALSE, keyword |-> <<>>]
        ELSE [is_alert |-> TRUE,
              keyword  |-> ALERT_KEYWORDS[CHOOSE i \in hits : \A j \in hits : i <= j]]

\* detectRegion: the first region of the table with a keyword in the text,
\* or null.
Null == "null"
detectRegion(text) ==
    LET lowerText == toLowerCase(text)
        hits == {i \in 1..Len(REGION_KEYWORDS) :
                    SomeIncluded(lowerText, REGION_KEYWORDS[i].keywords)}
    IN  IF hits = {} THEN Null
        ELSE REGION_KEYWORDS[CHOOSE i \in hits : \A j \in hits : i <= j].name

\* detectTopics ending at the first topic found, as detectRegion does.
detectTopicsFirstOnly(text) ==
    LET lowerText == toLowerCase(text)
        hits == {i \in 1..Len(TOPIC_KEYWORDS) :
                    SomeIncluded(lowerText, TOPIC_KEYWORDS[i].keywords)}
    IN  IF hits = {} THEN <<>>
        ELSE <<TOPIC_KEYWORDS[CHOOSE i \in hits : \A j \in hits : i <= j].name>>

\* detectTopics: every topic of the table with a keyword in the text, in
\* table order.
RECURSIVE DetectTopicsFrom(_, _)
DetectTopicsFrom(lowerText, i) ==
    IF i > Len(TOPIC_KEYWORDS) THEN <<>>
    ELSE (IF SomeIncluded(lowerText, TOPIC_KEYWORDS[i].keywords)
          THEN <<TOPIC_KEYWORDS[i].name>> ELSE <<>>)
         \o DetectTopicsFrom(lowerText, i + 1)

detectTopics(text) == DetectTopicsFrom(toLowerCase(text), 1)

(***************************************************************************)
(* Text cleaning (stripHtml in pipeline/index.ts, cleanText and            *)
(* extractSummary in the parsers).  The space is the only white-space      *)
(* character of the alphabet.                                              *)
(***************************************************************************)
StartsWith(s, pat) ==
    /\ Len(pat) <= Len(s)
    /\ \A i \in 1..Len(pat) : s[i] = pat[i]

Drop(s, n) == SubSeq(s, n + 1, Len(s))

\* s.replace(/pat/g, rep) for a literal pattern: leftmost matches, not
\* overlapping, and the replacement is not scanned again.
RECURSIVE ReplaceAll(_, _, _)
ReplaceAll(s, pat, rep) ==
    IF Len(s) < Len(pat) THEN s
    ELSE IF StartsWith(s, pat) THEN rep \o ReplaceAll(Drop(s, Len(pat)), pat, rep)
    ELSE <<Head(s)>> \o ReplaceAll(Tail(s), pat, rep)

\* html.replace(/<[^>]*>/g, ' ')
RECURSIVE RemoveTags(_)
RemoveTags(s) ==
    IF s = <<>> THEN <<>>
    ELSE IF Head(s) = "<" /\ \E j \in 2..Len(s) : s[j] = ">"
         THEN LET close == CHOOSE j \in 2..Len(s) :
                               s[j] = ">" /\ \A k \in 2..(j - 1) : s[k] # ">"
              IN  <<" ">> \o RemoveTags(Drop(s, close))
    ELSE <<Head(s)>> \o RemoveTags(Tail(s))

\* text.replace(/\s+/g, ' ')
RECURSIVE CollapseSpaces(_)
CollapseSpaces(s) ==
    IF Len(s) < 2 THEN s
    ELSE IF s[1] = " " /\ s[2] = " " THEN CollapseSpaces(Tail(s))
    ELSE <<Head(s)>> \o CollapseSpaces(Tail(s))

\* String.prototype.trim
RECURSIVE TrimStart(_)
TrimStart(s) == IF s # <<>> /\ Head(s) = " " THEN TrimStart(Tail(s)) ELSE s

RECURSIVE TrimEnd(_)
TrimEnd(s) ==
    IF s # <<>> /\ s[Len(s)] = " " THEN TrimEnd(SubSeq(s, 1, Len(s) - 1)) ELSE s

Trim(s) == TrimEnd(TrimStart(s))

\* The entities are decoded one after the other, "&amp;" first, so the
\* output of one replacement is input to the next.
stripHtml(html) ==
    IF html = <<>> THEN <<>>
    ELSE LET t0 == RemoveTags(html)
             t1 == ReplaceAll(t0, <<"&", "a", "m", "p", ";">>, <<"&">>)
             t2 == ReplaceAll(t1, <<"&", "l", "t", ";">>, <<"<">>)
             t3 == ReplaceAll(t2, <<"&", "g", "t", ";">>, <<">">>)
             t4 == ReplaceAll(t3, <<"&", "q", "u", "o", "t", ";">>, <<"\"">>)
             t5 == ReplaceAll(t4, <<"&", "#", "3", "9", ";">>, <<"'">>)
             t6 == ReplaceAll(t5, <<"&", "n", "b", "s", "p", ";">>, <<" ">>)
         IN  Trim(CollapseSpaces(t6))

\* clean.replace(/suffix$/i, '')
RemoveSuffixIgnoreCase(s, suffix) ==
    IF /\ Len(suffix) <= Len(s)
       /\ toLowerCase(SubSeq(s, Len(s) - Len(suffix) + 1, Len(s))) = toLowerCase(suffix)
    THEN SubSeq(s, 1, Len(s) - Len(suffix))
    ELSE s

Ellipsis == <<".", ".", ".">>
ContinueReading ==
    <<"C", "o", "n", "t", "i", "n", "u", "e", " ",
      "r", "e", "a", "d", "i", "n", "g", ".", ".", ".">>
ReadMore == <<"R", "e", "a", "d", " ", "m", "o", "r", "e", ".", ".", ".">>

\* The first replacement of line 20 matches three characters outside the
\* alphabet of the model, so it never applies here.
cleanText(text) ==
    IF text = <<>> THEN <<>>
    ELSE LET c0 == stripHtml(text)
             c1 == ReplaceAll(c0, <<"[", ".", ".", ".", "]">>, Ellipsis)
             c2 == RemoveSuffixIgnoreCase(c1, ContinueReading)
             c3 == RemoveSuffixIgnoreCase(c2, ReadMore)
         IN  Trim(CollapseSpaces(c3))

\* String.prototype.lastIndexOf for one character, 0-based, -1 if absent.
LastIndexOf(s, c) ==
    LET hits == {i \in 1..Len(s) : s[i] = c}
    IN  IF hits = {} THEN -1 ELSE (CHOOSE i \in hits : \A j \in hits : j <= i) - 1

Max3(a, b, c) ==
    IF a >= b /\ a >= c THEN a ELSE IF b >= c THEN b ELSE c

\* extractSummary without the cut at a sentence boundary.
extractSummaryNoSentenceCut(content, maxLength) ==
    IF content = <<>> THEN <<>>
    ELSE LET clean == cleanText(content)
             truncated == SubSeq(clean, 1, maxLength)
             lastSpace == LastIndexOf(truncated, " ")
         IN  IF Len(clean) <= maxLength THEN clean
             ELSE IF 10 * lastSpace > 7 * maxLength
                  THEN SubSeq(clean, 1, lastSpace) \o Ellipsis
             ELSE truncated \o Ellipsis

\* extractSummary(content, maxLength).  The comparisons with maxLength * 0.5
\* and maxLength * 0.7 are made in integers.
extractSummary(content, maxLength) ==
    IF content = <<>> THEN <<>>
    ELSE LET clean == cleanText(content)
             truncated == SubSeq(clean, 1, maxLength)
             boundary == Max3(LastIndexOf(truncated, "."),
                              LastIndexOf(truncated, "?"),
                              LastIndexOf(truncated, "!"))
             lastSpace == LastIndexOf(truncated, " ")
         IN  IF Len(clean) <= maxLength THEN clean
             ELSE IF 2 * boundary > maxLength THEN SubSeq(clean, 1, boundary + 1)
             ELSE IF 10 * lastSpace > 7 * maxLength
                  THEN SubSeq(clean, 1, lastSpace) \o Ellipsis
             ELSE truncated \o Ellipsis

(***************************************************************************)
(* extractTickers (utils/config.ts).  TICKER_PATTERNS are three regular    *)
(* expressions; each is run over the whole text, match after match, and    *)
(* the first group of every match is added, in upper case, to a Set.       *)
(***************************************************************************)
\* The class \w: [A-Za-z0-9_]
IsWordChar(c) ==
    \/ CharCode(c) >= 65 /\ CharCode(c) <= 90
    \/ CharCode(c) >= 97 /\ CharCode(c) <= 122
    \/ CharCode(c) >= 48 /\ CharCode(c) <= 57
    \/ c = "_"

toUpperCase(s) ==
    [i \in 1..Len(s) |->
        IF CharCode(s[i]) >= 97 /\ CharCode(s[i]) <= 122
        THEN AsciiPrintable[CharCode(s[i]) - 63] ELSE s[i]]

\* \b between the characters i - 1 and i of the text.
WordBoundary(text, i) ==
    (i > 1 /\ i - 1 <= Len(text) /\ IsWordChar(text[i - 1]))
        # (i <= Len(text) /\ IsWordChar(text[i]))

\* The number of characters from i on that are all of [A-Z]: upper case
\* letters, or letters of either case under the flag i (caseless).
ClassRun(text, i, caseless) ==
    LET InClass(c) == \/ CharCode(c) >= 65 /\ CharCode(c) <= 90
                      \/ caseless /\ CharCode(c) >= 97 /\ CharCode(c) <= 122
        stop == CHOOSE k \in i..(Len(text) + 1) :
                    /\ k = Len(text) + 1 \/ ~InClass(text[k])
                    /\ \A j \in i..(k - 1) : InClass(text[j])
    IN  stop - i

\* pattern.exec at position i: the length of the match (0 when the pattern
\* does not match there) and its first group.
\*   1: /\$([A-Z]{1,5})\b/g
\*   2: /\b([A-Z]{2,5})\b(?=\s+(?:stock|shares|inc|corp|ltd))/gi
\*   3: /\b(BTC|ETH|SOL|XRP|ADA|DOGE|DOT|AVAX|MATIC|LINK)\b/gi
TickerAt(text, i, pattern) ==
    LET NoMatch == [len |-> 0, group |-> <<>>]
        rest == toLowerCase(Drop(text, i - 1))
        COMPANY_WORDS ==
            <<<<"s", "t", "o", "c", "k">>, <<"s", "h", "a", "r", "e", "s">>,
              <<"i", "n", "c">>, <<"c", "o", "r", "p">>, <<"l", "t", "d">>>>
        CRYPTO_SYMBOLS ==
            <<<<"B", "T", "C">>, <<"E", "T", "H">>, <<"S", "O", "L">>,
              <<"X", "R", "P">>, <<"A", "D", "A">>, <<"D", "O", "G", "E">>,
              <<"D", "O", "T">>, <<"A", "V", "A", "X">>,
              <<"M", "A", "T", "I", "C">>, <<"L", "I", "N", "K">>>>
    IN  CASE pattern = 1 ->
                IF text[i] # "$" THEN NoMatch
                ELSE LET n == ClassRun(text, i + 1, FALSE)
                     IN  IF n >= 1 /\ n <= 5 /\ WordBoundary(text, i + 1 + n)
                         THEN [len |-> n + 1, group |-> SubSeq(text, i + 1, i + n)]
                         ELSE NoMatch
          [] pattern = 2 ->
                LET n == ClassRun(text, i, TRUE)
                    spaces == CHOOSE k \in 0..Len(text) :
                                /\ \A j \in 1..k : i + n + j - 1 <= Len(text)
                                                     /\ text[i + n + j - 1] = " "
                                /\ i + n + k > Len(text) \/ text[i + n + k] # " "
                IN  IF /\ WordBoundary(text, i) /\ n >= 2 /\ n <= 5
                       /\ WordBoundary(text, i + n)
                       /\ spaces >= 1
                       /\ \E w \in 1..Len(COMPANY_WORDS) :
                              StartsWith(Drop(rest, n + spaces), COMPANY_WORDS[w])
                    THEN [len |-> n, group |-> SubSeq(text, i, i + n - 1)]
                    ELSE NoMatch
          [] OTHER ->
                LET hits == {w \in 1..Len(CRYPTO_SYMBOLS) :
                                /\ StartsWith(rest, toLowerCase(CRYPTO_SYMBOLS[w]))
                                /\ WordBoundary(text, i + Len(CRYPTO_SYMBOLS[w]))}
                    first == CHOOSE w \in hits : \A v \in hits : w <= v
                IN  IF WordBoundary(text, i) /\ hits # {}
                    THEN [len |-> Len(CRYPTO_SYMBOLS[first]),
                          group |-> SubSeq(text, i, i + Len(CRYPTO_SYMBOLS[first]) - 1)]
                    ELSE NoMatch

\* The while loop of extractTickers for one pattern, from position i on:
\* tickers.add(match[1].toUpperCase()), the Set kept in insertion order.
RECURSIVE TickerLoop(_, _, _, _)
TickerLoop(text, i, pattern, tickers) ==
    IF i > Len(text) THEN tickers
    ELSE LET match == TickerAt(text, i, pattern)
             ticker == toUpperCase(match.group)
         IN  IF match.len = 0 THEN TickerLoop(text, i + 1, pattern, tickers)
             ELSE TickerLoop(text, i + match.len, pattern,
                             IF \E k \in 1..Len(tickers) : tickers[k] = ticker
                             THEN tickers ELSE Append(tickers, ticker))

extractTickers(text) ==
    TickerLoop(text, 1, 3, TickerLoop(text, 1, 2, TickerLoop(text, 1, 1, <<>>)))

(***************************************************************************)
(* Records.  A date string of a source is written by its form and fields:  *)
(* "gdelt" is YYYYMMDDT000000Z, "iso" is YYYY-MM-DDT00:00:00Z, "empty" is   *)
(* the empty string.  The clock reads NowIso during a run.                 *)
(***************************************************************************)
NowIso == IsoDate(2024, 1, 4)

DateStr(form, y, m, d) == [form |-> form, y |-> y, m |-> m, d |-> d]
EmptyDate == DateStr("empty", 0, 0, 0)

\* new Date(dateStr).toISOString(): the compact form is not a date string
\* Date parses, and toISOString throws a RangeError on an invalid date.
DateToISOString(dateStr) ==
    LET parsed == IF dateStr.form = "iso"
                  THEN getTime(IsoDate(dateStr.y, dateStr.m, dateStr.d))
                  ELSE [ok |-> FALSE, t |-> 0]
    IN  IF parsed.ok
        THEN [threw |-> FALSE, iso |-> IsoDate(dateStr.y, dateStr.m, dateStr.d)]
        ELSE [threw |-> TRUE, iso |-> NowIso]

\* parseGdeltDate: the fields the pattern captures are joined with
\* separators; their ranges are not checked.
parseGdeltDate(dateStr) ==
    IF dateStr.form = "empty" THEN NowIso
    ELSE IF dateStr.form = "gdelt" THEN IsoDate(dateStr.y, dateStr.m, dateStr.d)
    ELSE DateToISOString(dateStr).iso

parseRssDate(dateStr) ==
    IF dateStr.form = "empty" THEN NowIso
    ELSE DateToISOString(dateStr).iso

\* parseDate (parsers): new Date(dateStr) when it is valid; else the first
\* of the three patterns that matches and whose toISOString does not throw
\* (the compact form is rebuilt with separators before it is parsed); else
\* the current time.
parseDate(dateStr) ==
    IF dateStr.form = "empty" THEN NowIso
    ELSE IF ~DateToISOString(dateStr).threw THEN DateToISOString(dateStr).iso
    ELSE IF dateStr.form = "gdelt"
    THEN DateToISOString(DateStr("iso", dateStr.y, dateStr.m, dateStr.d)).iso
    ELSE NowIso

\* region ?? undefined
OrUndefined(region) == IF region = Null THEN Undefined ELSE region

GdeltSourceName(category) == <<"g", "d", "e", "l", "t", "-">> \o category
SrcGDELT == <<"G", "D", "E", "L", "T">>

\* transformArticle (connectors/gdelt.ts)
transformArticle(article, category) ==
    LET title == article.title
        alert == containsAlertKeyword(title)
    IN  [id           |-> generateId(article.url, GdeltSourceName(category)),
         source       |-> IF article.domain # <<>> THEN article.domain ELSE SrcGDELT,
         url          |-> article.url,
         title        |-> title,
         published_at |-> parseGdeltDate(article.seendate),
         summary      |-> <<>>,
         content_text |-> <<>>,
         tickers      |-> <<>>,
         topics       |-> detectTopics(title),
         metadata     |-> [category      |-> category,
                           is_alert      |-> alert.is_alert,
                           alert_keyword |-> alert.keyword,
                           region        |-> OrUndefined(detectRegion(title)),
                           intel_type    |-> Undefined]]

\* transformRSSItem (connectors/rss.ts)
transformRSSItem(item, source, category) ==
    LET title == item.title
        description == item.description
        content == item.content
        fullText == title \o <<" ">> \o description \o <<" ">> \o content
        alert == containsAlertKeyword(title)
    IN  [id           |-> generateId(IF item.link # <<>> THEN item.link ELSE title,
                                     source.name),
         source       |-> source.name,
         url          |-> item.link,
         title        |-> title,
         published_at |-> parseRssDate(item.pubDate),
         summary      |-> description,
         content_text |-> IF content # <<>> THEN content ELSE description,
         tickers      |-> extractTickers(fullText),
         topics       |-> detectTopics(fullText),
         metadata     |-> [category      |-> category,
                           is_alert      |-> alert.is_alert,
                           alert_keyword |-> alert.keyword,
                           region        |-> OrUndefined(detectRegion(fullText)),
                           intel_type    |-> Undefined]]

\* The spread of fetchIntelFeeds (connectors/rss.ts 257-264).
WithIntelType(item, source) ==
    [item EXCEPT !.metadata.intel_type = source.type]

SummaryMaxLength == 300

\* PopulatedOr deriving the list whether or not one is given.
DerivedAlways(given, derived) == derived

\* item.topics?.length ? item.topics : detectTopics(fullText), and the same
\* for the tickers: an absent list reads as the empty one.
PopulatedOr(given, derived) == IF Len(given) > 0 THEN given ELSE derived

\* normalizeItem (parsers).  The argument has its id, url, source and date,
\* so the defaults for these do not apply.  Of its metadata, is_alert and
\* alert_keyword are fields of the record when they are defined and are not
\* fields of it when they are undefined; the alert_keyword of the result is
\* written as the empty string when it is undefined.
normalizeItem(item) ==
    LET title == cleanText(item.title)
        summary == IF item.summary # <<>> THEN cleanText(item.summary) ELSE <<>>
        content == IF item.content_text # <<>> THEN cleanText(item.content_text)
                   ELSE <<>>
        fullText == title \o <<" ">> \o summary \o <<" ">> \o content
        region == IF item.metadata.region # Undefined THEN item.metadata.region
                  ELSE detectRegion(fullText)
        alert == IF "is_alert" \in DOMAIN item.metadata
                 THEN [is_alert |-> item.metadata.is_alert,
                       keyword  |-> IF "alert_keyword" \in DOMAIN item.metadata
                                    THEN item.metadata.alert_keyword ELSE <<>>]
                 ELSE containsAlertKeyword(title)
    IN  [item EXCEPT
            !.title = title,
            !.summary = IF summary # <<>> THEN summary
                        ELSE extractSummary(content, SummaryMaxLength),
            !.content_text = content,
            !.tickers = PopulatedOr(item.tickers, extractTickers(fullText)),
            !.topics = PopulatedOr(item.topics, detectTopics(fullText)),
            !.metadata = [category      |-> item.metadata.category,
                          is_alert      |-> alert.is_alert,
                          alert_keyword |-> alert.keyword,
                          region        |-> OrUndefined(region),
                          intel_type    |-> item.metadata.intel_type]]

\* The longest string the engine builds: a longer one is a RangeError
\* (Invalid string length).  The texts of the records are well below it,
\* but for the description of LongItem.
MaxStringLength == 40

\* The template literal of fullText in normalizeItem: title, summary and
\* content with two blanks between them.  For a record of a feed the summary
\* and the content are both the description when the item has no content,
\* so the text is about twice as long as the one transformRSSItem built.
normalizeItemThrows(item) ==
    LET title == cleanText(item.title)
        summary == IF item.summary # <<>> THEN cleanText(item.summary) ELSE <<>>
        content == IF item.content_text # <<>> THEN cleanText(item.content_text)
                   ELSE <<>>
    IN  Len(title) + 1 + Len(summary) + 1 + Len(content) > MaxStringLength

(***************************************************************************)
(* deduplicateItems (pipeline/index.ts 99-122).  seen is the Map, kept as  *)
(* the sequence of its values in insertion order; titleHashes is the Set.  *)
(***************************************************************************)
titleFingerprint(title) == hashCode(StripNonAlnum(toLowerCase(title)))

SeenHas(seen, id) == \E k \in 1..Len(seen) : seen[k].id = id

\* DedupStep without the test of the title fingerprint.
DedupStepIdOnly(st, item) ==
    IF SeenHas(st[1], item.id) THEN st
    ELSE <<Append(st[1], item), st[2] \cup {titleFingerprint(item.title)}>>

\* DedupStep recording the fingerprint of a record it drops for its id.
DedupStepMarksDropped(st, item) ==
    IF SeenHas(st[1], item.id)
    THEN <<st[1], st[2] \cup {titleFingerprint(item.title)}>>
    ELSE IF titleFingerprint(item.title) \in st[2] THEN st
    ELSE <<Append(st[1], item), st[2] \cup {titleFingerprint(item.title)}>>

\* One iteration of the for loop over items, on the state <<seen, titleHashes>>.
DedupStep(st, item) ==
    IF SeenHas(st[1], item.id) THEN st
    ELSE IF titleFingerprint(item.title) \in st[2] THEN st
    ELSE <<Append(st[1], item), st[2] \cup {titleFingerprint(item.title)}>>

RECURSIVE DedupLoop(_, _)
DedupLoop(st, items) ==
    IF items = <<>> THEN st ELSE DedupLoop(DedupStep(st, Head(items)), Tail(items))

deduplicateItems(items) == DedupLoop(<<(<<>>), {}>>, items)[1]

(***************************************************************************)
(* sortItems (pipeline/index.ts 127-133): a copy of the list, sorted by    *)
(* Array.prototype.sort with the comparator dateB - dateA.                 *)
(*                                                                         *)
(* The comparator's result is NaN when either date is invalid, and sort    *)
(* reads NaN as +0.  With such a comparator the order is implementation    *)
(* defined; the operators below are what the Node.js build does for a      *)
(* list shorter than 64: find the initial run (reversing a strictly        *)
(* descending one), then insert each remaining element by binary search.   *)
(***************************************************************************)
\* (a, b) => dateB - dateA, as sort reads it: NaN counts as 0.
SortCompare(a, b) ==
    LET dateA == getTime(a.published_at)
        dateB == getTime(b.published_at)
    IN  IF IsNaN(dateA) \/ IsNaN(dateB) THEN 0 ELSE dateB.t - dateA.t

\* The length of the run that starts the list; idx is the next position to
\* look at and the run so far is w[1..idx-1].
RECURSIVE RunEnd(_, _, _)
RunEnd(w, idx, isDescending) ==
    IF idx > Len(w) THEN idx - 1
    ELSE LET order == SortCompare(w[idx], w[idx - 1])
         IN  IF isDescending /\ order >= 0 THEN idx - 1
             ELSE IF ~isDescending /\ order < 0 THEN idx - 1
             ELSE RunEnd(w, idx + 1, isDescending)

Reverse(s) == [i \in 1..Len(s) |-> s[Len(s) + 1 - i]]

\* CountAndMakeRun: <<the list with its initial run made ascending, run length>>.
CountAndMakeRun(w) ==
    IF Len(w) = 1 THEN <<w, 1>>
    ELSE LET isDescending == SortCompare(w[2], w[1]) < 0
             n == RunEnd(w, 3, isDescending)
         IN  IF isDescending
             THEN <<Reverse(SubSeq(w, 1, n)) \o SubSeq(w, n + 1, Len(w)), n>>
             ELSE <<w, n>>

\* The binary search of BinaryInsertionSort for the place of pivot in
\* w[left+1 .. right] (zero-based half-open [left, right) in the code).
RECURSIVE InsertionPoint(_, _, _, _)
InsertionPoint(w, pivot, left, right) ==
    IF left >= right THEN left
    ELSE LET mid == left + ((right - left) \div 2)
         IN  IF SortCompare(pivot, w[mid + 1]) < 0
             THEN InsertionPoint(w, pivot, left, mid)
             ELSE InsertionPoint(w, pivot, mid + 1, right)

\* BinaryInsertionSort from position start (zero-based) to the end.
RECURSIVE BinaryInsertionSort(_, _)
BinaryInsertionSort(w, start) ==
    IF start >= Len(w) THEN w
    ELSE LET pivot == w[start + 1]
             left  == InsertionPoint(w, pivot, 0, start)
             moved == SubSeq(w, 1, left) \o <<pivot>> \o SubSeq(w, left + 1, start)
                          \o SubSeq(w, start + 2, Len(w))
         IN  BinaryInsertionSort(moved, start + 1)

ArraySort(items) ==
    IF Len(items) < 2 THEN items
    ELSE LET run == CountAndMakeRun(items)
         IN  BinaryInsertionSort(run[1], run[2])

sortItems(items) == ArraySort(items)

(***************************************************************************)
(* filterItems (pipeline/index.ts 42-94).  A FilterConfig is the record of *)
(* its six fields and the set of the keys that are present; an absent      *)
(* list is empty and an absent max_age_ms is 0, which the guards of the    *)
(* code read alike.  Ages are in days.                                     *)
(***************************************************************************)
\* An element of a keyword list that is not a string (null).
NotAString == <<"(null)">>

Contains(list, x) == \E i \in 1..Len(list) : list[i] = x

\* keywords.some((k) => text.includes(k.toLowerCase())), left to right:
\* "true" at the first keyword found, "throw" at an element without
\* toLowerCase, "false" at the end of the list.
RECURSIVE SomeKeyword(_, _, _)
SomeKeyword(text, keywords, i) ==
    IF i > Len(keywords) THEN "false"
    ELSE IF keywords[i] = NotAString THEN "throw"
    ELSE IF Includes(text, toLowerCase(keywords[i])) THEN "true"
    ELSE SomeKeyword(text, keywords, i + 1)

\* TooOld dropping a record whose age is the maximum age, too.
TooOldInclusive(item, config) ==
    LET date == getTime(item.published_at)
    IN  /\ config.max_age_ms # 0
        /\ ~IsNaN(date)
        /\ getTime(NowIso).t - date.t >= config.max_age_ms

\* The age filter (lines 84-90): itemAge > config.max_age_ms, which is false
\* of the NaN of a published_at that does not parse.
TooOld(item, config) ==
    LET date == getTime(item.published_at)
    IN  /\ config.max_age_ms # 0
        /\ ~IsNaN(date)
        /\ getTime(NowIso).t - date.t > config.max_age_ms

\* The callback of items.filter: "keep", "drop" or "throw".
FilterItem(item, config) ==
    LET text == toLowerCase(item.title \o <<" ">> \o item.summary)
        includeHit == SomeKeyword(text, config.include_keywords, 1)
        excludeHit == SomeKeyword(text, config.exclude_keywords, 1)
    IN  IF /\ Len(config.categories) > 0
           /\ item.metadata.category # <<>>
           /\ ~Contains(config.categories, item.metadata.category)
        THEN "drop"
        ELSE IF /\ Len(config.regions) > 0
                /\ item.metadata.region # Undefined
                /\ ~Contains(config.regions, item.metadata.region)
        THEN "drop"
        ELSE IF /\ Len(config.topics) > 0
                /\ ~\E k \in 1..Len(item.topics) : Contains(config.topics, item.topics[k])
        THEN "drop"
        ELSE IF Len(config.include_keywords) > 0 /\ includeHit = "throw"
        THEN "throw"
        ELSE IF Len(config.include_keywords) > 0 /\ includeHit = "false"
        THEN "drop"
        ELSE IF Len(config.exclude_keywords) > 0 /\ excludeHit = "throw"
        THEN "throw"
        ELSE IF Len(config.exclude_keywords) > 0 /\ excludeHit = "true"
        THEN "drop"
        ELSE IF TooOld(item, config)
        THEN "drop"
        ELSE "keep"

\* FilterLoop collecting the kept records behind those that follow them.
RECURSIVE FilterLoopBackwards(_, _)
FilterLoopBackwards(items, config) ==
    IF items = <<>> THEN [threw |-> FALSE, items |-> <<>>]
    ELSE LET verdict == FilterItem(Head(items), config)
             rest == FilterLoopBackwards(Tail(items), config)
         IN  IF verdict = "throw" \/ rest.threw
             THEN [threw |-> TRUE, items |-> <<>>]
             ELSE [threw |-> FALSE,
                   items |-> rest.items
                             \o (IF verdict = "keep" THEN <<Head(items)>> ELSE <<>>)]

RECURSIVE FilterLoop(_, _)
FilterLoop(items, config) ==
    IF items = <<>> THEN [threw |-> FALSE, items |-> <<>>]
    ELSE LET verdict == FilterItem(Head(items), config)
             rest == FilterLoop(Tail(items), config)
         IN  IF verdict = "throw" \/ rest.threw
             THEN [threw |-> TRUE, items |-> <<>>]
             ELSE [threw |-> FALSE,
                   items |-> (IF verdict = "keep" THEN <<Head(items)>> ELSE <<>>)
                             \o rest.items]

\* filterItems returns the kept records, or throws what the callback threw.
filterItems(items, config) == FilterLoop(items, config)

(***************************************************************************)
(* Source tables (utils/config.ts), for the categories of the model: ai,   *)
(* intel and general.  A feed is written by its name (and type).           *)
(***************************************************************************)
Ai == <<"a", "i">>
Intel == <<"i", "n", "t", "e", "l">>
General == <<"g", "e", "n", "e", "r", "a", "l">>

OpenAIBlog == [name |-> <<"O", "p", "e", "n", "A", "I", " ", "B", "l", "o", "g">>, type |-> Undefined]
ArXivAI == [name |-> <<"A", "r", "X", "i", "v", " ", "A", "I">>, type |-> Undefined]
CSISFeed == [name |-> <<"C", "S", "I", "S">>, type |-> Undefined]
BrookingsFeed == [name |-> <<"B", "r", "o", "o", "k", "i", "n", "g", "s">>, type |-> Undefined]

\* FEEDS[category] || []
FEEDS(category) ==
    CASE category = Ai -> <<OpenAIBlog, ArXivAI>>
      [] category = Intel -> <<CSISFeed, BrookingsFeed>>
      [] OTHER -> <<>>

INTEL_SOURCES ==
    <<[name |-> <<"C", "S", "I", "S">>, type |-> "think-tank"],
      [name |-> <<"B", "r", "o", "o", "k", "i", "n", "g", "s">>, type |-> "think-tank"],
      [name |-> <<"C", "F", "R">>, type |-> "think-tank"],
      [name |-> <<"D", "e", "f", "e", "n", "s", "e", " ", "O", "n", "e">>, type |-> "defense"],
      [name |-> <<"W", "a", "r", " ", "o", "n", " ", "R", "o", "c", "k", "s">>, type |-> "defense"],
      [name |-> <<"B", "r", "e", "a", "k", "i", "n", "g", " ", "D", "e", "f", "e", "n", "s", "e">>, type |-> "defense"],
      [name |-> <<"T", "h", "e", " ", "D", "i", "p", "l", "o", "m", "a", "t">>, type |-> "regional"],
      [name |-> <<"A", "l", "-", "M", "o", "n", "i", "t", "o", "r">>, type |-> "regional"],
      [name |-> <<"B", "e", "l", "l", "i", "n", "g", "c", "a", "t">>, type |-> "osint"],
      [name |-> <<"C", "I", "S", "A", " ", "A", "l", "e", "r", "t", "s">>, type |-> "cyber"],
      [name |-> <<"K", "r", "e", "b", "s", " ", "S", "e", "c", "u", "r", "i", "t", "y">>, type |-> "cyber"]>>

\* GDELT_QUERIES[category] is a non-empty string.
HasGdeltQuery(category) == category \in {Ai, Intel}

(***************************************************************************)
(* What the sources serve when a request succeeds.  It is fixed: the runs  *)
(* differ by which requests fail and how, not by what a source holds.      *)
(***************************************************************************)
GdeltArticle(url, title, seendate) ==
    [url |-> url, title |-> title, seendate |-> seendate, domain |-> <<>>]

RssItem(link, title, description, pubDate) ==
    [link |-> link, title |-> title, pubDate |-> pubDate,
     description |-> description, content |-> <<>>]

\* The articles of the GDELT answer for a category.  The second article of
\* intel carries the seendate "20241301T000000Z".
GdeltArticles(category) ==
    IF category = Intel
    THEN <<GdeltArticle(<<"g", "/", "1">>, <<"S", "p", "y", " ", "w", "a", "r">>,
                        DateStr("gdelt", 2024, 1, 2)),
           GdeltArticle(<<"g", "/", "2">>, <<"N", "a", "t", "o">>,
                        DateStr("gdelt", 2024, 13, 1))>>
    ELSE <<GdeltArticle(<<"g", "/", "3">>, <<"A", "I">>,
                        DateStr("gdelt", 2024, 1, 1))>>

\* The items of a feed.  The item of CSIS has the title fingerprint of the
\* first GDELT article of intel, the item of ArXiv AI that of the GDELT
\* article of ai.
FeedItems(source) ==
    CASE source.name = CSISFeed.name ->
            <<RssItem(<<"c", "/", "1">>, <<"s", "p", "y", " ", "w", "a", "r", "!">>,
                      <<"<", "b", ">", "E", "U", "<", "/", "b", ">">>,
                      DateStr("iso", 2024, 1, 3))>>
      [] source.name = BrookingsFeed.name ->
            <<RssItem(<<"b", "/", "1">>, <<"F", "e", "d">>, <<>>,
                      DateStr("iso", 2024, 1, 1))>>
      [] source.name = OpenAIBlog.name ->
            <<RssItem(<<"o", "/", "1">>, <<"G", "P", "T">>, <<>>,
                      DateStr("iso", 2024, 1, 2))>>
      [] source.name = ArXivAI.name ->
            <<RssItem(<<"a", "/", "1">>, <<"a", "i">>, <<>>, EmptyDate)>>
      [] OTHER ->
            <<RssItem(<<"x", "/", "1">>, source.name, <<>>,
                      DateStr("iso", 2024, 1, 1))>>

(***************************************************************************)
(* One request of a connector, by the way it ends                          *)
(***************************************************************************)
\* fetchGdeltCategory after buildGdeltUrl (connectors/gdelt.ts 102-151).
\* "network", "timeout" and "http" end in the catch of line 144,
\* "content_type" at line 122, "bad_json" at line 132, "no_articles" at
\* line 137; each returns [].
GdeltOutcomes ==
    {"ok", "network", "timeout", "http", "content_type", "bad_json", "no_articles"}
GdeltFailures == GdeltOutcomes \ {"ok", "no_articles"}

\* data.articles.map(transformArticle) of line 142, tabulated by category.
GdeltRecords ==
    [category \in {Ai, Intel} |->
        LET articles == GdeltArticles(category)
        IN  [k \in 1..Len(articles) |-> transformArticle(articles[k], category)]]

fetchGdeltCategory(category, outcome) ==
    IF outcome = "ok" THEN GdeltRecords[category] ELSE <<>>

\* One attempt of fetchWithProxy (connectors/rss.ts 121-157): "http" and
\* "not_xml" continue with the next proxy, "network" and "timeout" are caught
\* and the loop goes on.
AttemptOutcomes == {"ok", "network", "timeout", "http", "not_xml"}

\* proxies = corsProxies, or [''] when there is none
ProxyList(corsProxies) == IF Len(corsProxies) > 0 THEN corsProxies ELSE <<"">>

\* fetchWithProxy: the text of the first attempt that ends "ok", else null.
\* attempts[k] is how the attempt through proxy k would end.
RECURSIVE ProxyLoop(_, _, _)
ProxyLoop(proxies, attempts, k) ==
    IF k > Len(proxies) THEN [xml |-> FALSE, proxy |-> 0]
    ELSE IF attempts[k] = "ok" THEN [xml |-> TRUE, proxy |-> k]
    ELSE ProxyLoop(proxies, attempts, k + 1)

fetchWithProxy(corsProxies, attempts) == ProxyLoop(ProxyList(corsProxies), attempts, 1)

\* parseRSSXml keeps the items that have a title or a link (line 63).
RECURSIVE parseRSSXml(_)
parseRSSXml(xml) ==
    IF xml = <<>> THEN <<>>
    ELSE (IF Head(xml).title # <<>> \/ Head(xml).link # <<>>
          THEN <<Head(xml)>> ELSE <<>>) \o parseRSSXml(Tail(xml))

\* The feeds a run may request, each with the category it is requested for.
RssSources ==
    {<<c, FEEDS(c)[k]>> : c \in {Ai, Intel}, k \in 1..2}
    \cup {<<Intel, INTEL_SOURCES[k]>> : k \in 1..Len(INTEL_SOURCES)}

\* parseRSSXml(xml).map(transformRSSItem) of lines 182-185, tabulated by feed.
RssRecords ==
    [cs \in RssSources |->
        LET items == parseRSSXml(FeedItems(cs[2]))
        IN  [k \in 1..Len(items) |-> transformRSSItem(items[k], cs[2], cs[1])]]

\* fetchRSSFeed (connectors/rss.ts 166-191)
fetchRSSFeed(source, category, corsProxies, attempts) ==
    IF ~fetchWithProxy(corsProxies, attempts).xml THEN <<>>
    ELSE RssRecords[<<category, source>>]

(***************************************************************************)
(* State                                                                   *)
(***************************************************************************)
VARIABLES
    opts,       \* the options of the run, DEFAULT_OPTIONS merged with the caller's
    pc,         \* where runPipeline is: a stage, "done" (resolved), "rejected"
    conn,       \* the connector at work: category index i, feed index j, its items
    allItems,   \* the list of records of runPipeline
    errors,     \* the list of StageErrors of runPipeline
    stats,      \* the counters of runPipeline
    stages,     \* history: the stages entered so far, in order
    saved,      \* history: the argument of every call of storage.save
    requested,  \* history: the requests made, each with the way it ended
    fams,       \* history: per family, how its fetch ended and what it added
    fnIn,       \* the argument list of the pure function under study
    fnCfg,      \* its second argument (the FilterConfig of filterItems)
    fnOp,       \* which function was applied to fnIn ("none" before the call)
    fnOut,      \* the list the function returned
    px,         \* one call of fetchWithProxy: its proxies, position and requests
    jsonl,      \* a JsonlStorage: its options, its file and what load returned
    db,         \* a SqliteStorage: the rows of its table and what load returned
    net         \* the fetch stage at its suspension points: requests and timers

runVars == <<opts, pc, conn, allItems, errors, stats, stages, saved, requested, fams>>
fnVars == <<fnIn, fnCfg, fnOp, fnOut>>
ioVars == <<px, jsonl, db, net>>
vars == <<opts, pc, conn, allItems, errors, stats, stages, saved, requested, fams,
          fnIn, fnCfg, fnOp, fnOut, px, jsonl, db, net>>

(***************************************************************************)
(* The options of a run                                                    *)
(***************************************************************************)
MaxIntelSources == 1

\* categories: null, or a list over ai, intel and general
CategoryLists ==
    {<<>>, <<Intel>>, <<General>>, <<Intel, General>>, <<General, Intel>>,
     <<Ai, Intel>>}

CategoryInputs ==
    {[isNull |-> TRUE, list |-> <<>>]}
    \cup {[isNull |-> FALSE, list |-> l] : l \in CategoryLists}

FilterConfig(keys, categories, include_keywords, exclude_keywords, max_age_ms) ==
    [keys |-> keys, categories |-> categories, regions |-> <<>>, topics |-> <<>>,
     include_keywords |-> include_keywords, exclude_keywords |-> exclude_keywords,
     max_age_ms |-> max_age_ms]

NoFilter == FilterConfig({}, <<>>, <<>>, <<>>, 0)

\* No filter, a filter with a key and nothing to test, a filter on the
\* category, and a filter with a keyword that is null.
FilterConfigs ==
    {NoFilter,
     FilterConfig({"include_keywords"}, <<>>, <<>>, <<>>, 0),
     FilterConfig({"categories"}, <<Ai>>, <<>>, <<>>, 0),
     FilterConfig({"include_keywords"}, <<>>, <<NotAString>>, <<>>, 0)}

Options ==
    [useGdelt : BOOLEAN, useRss : BOOLEAN, useIntel : BOOLEAN,
     categories : CategoryInputs,
     corsProxies : {<<>>, <<"proxy1", "proxy2">>},
     filter : FilterConfigs,
     storage : BOOLEAN]

Families == {"GDELT", "RSS", "Intel"}
NoConn == [i |-> 1, j |-> 1, items |-> <<>>]
Idle == [useGdelt |-> FALSE, useRss |-> FALSE, useIntel |-> FALSE,
         categories |-> [isNull |-> FALSE, list |-> <<>>],
         corsProxies |-> <<>>, filter |-> NoFilter, storage |-> FALSE]

\* runPipeline lines 139-152: the state at the start of the fetch stage.
InitRun(o) ==
    /\ opts = o
    /\ pc = "gdelt"
    /\ conn = NoConn
    /\ allItems = <<>>
    /\ errors = <<>>
    /\ stats = [fetched |-> 0, parsed |-> 0, filtered |-> 0, deduplicated |-> 0]
    /\ stages = <<"fetch">>
    /\ saved = <<>>
    /\ requested = {}
    /\ fams = [f \in Families |-> [status |-> "pending", count |-> 0]]

\* No call of a pure function, of fetchWithProxy or of a storage adapter.
IdleFn == fnIn = <<>> /\ fnCfg = NoFilter /\ fnOp = "none" /\ fnOut = <<>>
IdlePx == px = [corsProxies |-> <<>>, proxies |-> <<>>, k |-> 1, sent |-> <<>>,
                ended |-> <<>>, result |-> "pending"]
IdleJsonl == jsonl = [append |-> FALSE, pretty |-> FALSE, exists |-> FALSE,
                      lines |-> <<>>, saves |-> <<>>, calls |-> 0,
                      loaded |-> <<>>, last |-> "none"]
IdleDb == db = [rows |-> <<>>, saves |-> <<>>, calls |-> 0, loaded |-> <<>>,
                last |-> "none"]
IdleNet == net = [fam |-> "none"]

Init ==
    /\ \E o \in Options : InitRun(o)
    /\ IdleFn /\ IdlePx /\ IdleJsonl /\ IdleDb /\ IdleNet

StageError(stage, source, message) ==
    [stage |-> stage, source |-> source, message |-> message]

FamilyEnds(family, status, count) ==
    fams' = [fams EXCEPT ![family] = [status |-> status, count |-> count]]

(***************************************************************************)
(* Stage 1, GDELT (runPipeline 155-169, fetchAllGdelt)                     *)
(***************************************************************************)
Categories == opts.categories.list
\* A request, by its family, category and feed, with the way it ended: "ok"
\* (records), "empty" (an answer without articles) or "failed".
Request(family, category, source, result) ==
    [family |-> family, category |-> category, source |-> source, result |-> result]

GdeltResult(outcome) ==
    IF outcome = "ok" THEN "ok"
    ELSE IF outcome \in GdeltFailures THEN "failed" ELSE "empty"

FeedResult(corsProxies, attempts) ==
    IF fetchWithProxy(corsProxies, attempts).xml THEN "ok" ELSE "failed"

\* if (opts.useGdelt) is false
GdeltSkip ==
    /\ pc = "gdelt" /\ ~opts.useGdelt
    /\ pc' = "rss"
    /\ FamilyEnds("GDELT", "skipped", 0)
    /\ UNCHANGED <<opts, conn, allItems, errors, stats, stages, saved, requested>>

\* categories.length of null throws a TypeError (fetchAllGdelt line 163).
GdeltNullCategories ==
    /\ pc = "gdelt" /\ opts.useGdelt /\ opts.categories.isNull
    /\ errors' = Append(errors, StageError("fetch", "GDELT", "TypeError"))
    /\ pc' = "rss"
    /\ conn' = NoConn
    /\ FamilyEnds("GDELT", "threw", 0)
    /\ UNCHANGED <<opts, allItems, stats, stages, saved, requested>>

\* GdeltUnknownCategory with the records gathered so far pushed to allItems.
GdeltUnknownCategoryKeepsItems ==
    /\ pc = "gdelt" /\ opts.useGdelt /\ ~opts.categories.isNull
    /\ conn.i <= Len(Categories)
    /\ ~HasGdeltQuery(Categories[conn.i])
    /\ errors' = Append(errors, StageError("fetch", "GDELT", "Unknown category"))
    /\ allItems' = allItems \o conn.items
    /\ pc' = "rss"
    /\ conn' = NoConn
    /\ FamilyEnds("GDELT", "threw", 0)
    /\ UNCHANGED <<opts, stats, stages, saved, requested>>

\* buildGdeltUrl throws for a category without a query; the call is made at
\* line 98, before the try of fetchGdeltCategory, so the throw leaves
\* fetchAllGdelt and what it had gathered is lost.
GdeltUnknownCategory ==
    /\ pc = "gdelt" /\ opts.useGdelt /\ ~opts.categories.isNull
    /\ conn.i <= Len(Categories)
    /\ ~HasGdeltQuery(Categories[conn.i])
    /\ errors' = Append(errors, StageError("fetch", "GDELT", "Unknown category"))
    /\ pc' = "rss"
    /\ conn' = NoConn
    /\ FamilyEnds("GDELT", "threw", 0)
    /\ UNCHANGED <<opts, allItems, stats, stages, saved, requested>>

\* GdeltRequest with a loop that ends at the first request that fails.
GdeltRequestStopsAtFailure(outcome) ==
    /\ pc = "gdelt" /\ opts.useGdelt /\ ~opts.categories.isNull
    /\ conn.i <= Len(Categories)
    /\ HasGdeltQuery(Categories[conn.i])
    /\ conn' = [conn EXCEPT
                   !.items = @ \o fetchGdeltCategory(Categories[conn.i], outcome),
                   !.i = IF outcome \in GdeltFailures THEN Len(Categories) + 1
                         ELSE @ + 1]
    /\ requested' = requested \cup {Request("GDELT", Categories[conn.i], <<>>,
                                            GdeltResult(outcome))}
    /\ UNCHANGED <<opts, pc, allItems, errors, stats, stages, saved, fams>>

\* One turn of the loop of fetchAllGdelt: the request of category i.
GdeltRequest(outcome) ==
    /\ pc = "gdelt" /\ opts.useGdelt /\ ~opts.categories.isNull
    /\ conn.i <= Len(Categories)
    /\ HasGdeltQuery(Categories[conn.i])
    /\ conn' = [conn EXCEPT
                   !.items = @ \o fetchGdeltCategory(Categories[conn.i], outcome),
                   !.i = @ + 1]
    /\ requested' = requested \cup {Request("GDELT", Categories[conn.i], <<>>,
                                            GdeltResult(outcome))}
    /\ UNCHANGED <<opts, pc, allItems, errors, stats, stages, saved, fams>>

\* fetchAllGdelt returns; allItems.push(...items)
GdeltReturn ==
    /\ pc = "gdelt" /\ opts.useGdelt /\ ~opts.categories.isNull
    /\ conn.i > Len(Categories)
    /\ allItems' = allItems \o conn.items
    /\ pc' = "rss"
    /\ conn' = NoConn
    /\ FamilyEnds("GDELT", "returned", Len(conn.items))
    /\ UNCHANGED <<opts, errors, stats, stages, saved, requested>>

(***************************************************************************)
(* Stage 1, RSS (runPipeline 171-185, fetchAllRSS, fetchRSSCategory)       *)
(***************************************************************************)
RssSkip ==
    /\ pc = "rss" /\ ~opts.useRss
    /\ pc' = "intel"
    /\ FamilyEnds("RSS", "skipped", 0)
    /\ UNCHANGED <<opts, conn, allItems, errors, stats, stages, saved, requested>>

\* for (const category of null) throws a TypeError (fetchAllRSS line 232).
RssNullCategories ==
    /\ pc = "rss" /\ opts.useRss /\ opts.categories.isNull
    /\ errors' = Append(errors, StageError("fetch", "RSS", "TypeError"))
    /\ pc' = "intel"
    /\ conn' = NoConn
    /\ FamilyEnds("RSS", "threw", 0)
    /\ UNCHANGED <<opts, allItems, stats, stages, saved, requested>>

\* fetchRSSCategory of a category without feeds returns [] (lines 202-205).
RssCategoryNoFeeds ==
    /\ pc = "rss" /\ opts.useRss /\ ~opts.categories.isNull
    /\ conn.i <= Len(Categories)
    /\ Len(FEEDS(Categories[conn.i])) = 0
    /\ conn' = [conn EXCEPT !.i = @ + 1]
    /\ UNCHANGED <<opts, pc, allItems, errors, stats, stages, saved, requested, fams>>

\* One turn of the loop of fetchRSSCategory: feed j of category i.
RssFetchFeed(attempts) ==
    /\ pc = "rss" /\ opts.useRss /\ ~opts.categories.isNull
    /\ conn.i <= Len(Categories)
    /\ LET category == Categories[conn.i]
           feeds == FEEDS(category)
       IN  /\ conn.j <= Len(feeds)
           /\ conn' = [items |-> conn.items
                                   \o fetchRSSFeed(feeds[conn.j], category,
                                                   opts.corsProxies, attempts),
                       i |-> IF conn.j = Len(feeds) THEN conn.i + 1 ELSE conn.i,
                       j |-> IF conn.j = Len(feeds) THEN 1 ELSE conn.j + 1]
           /\ requested' = requested \cup
                  {Request("RSS", category, feeds[conn.j].name,
                           FeedResult(opts.corsProxies, attempts))}
    /\ UNCHANGED <<opts, pc, allItems, errors, stats, stages, saved, fams>>

RssReturn ==
    /\ pc = "rss" /\ opts.useRss /\ ~opts.categories.isNull
    /\ conn.i > Len(Categories)
    /\ allItems' = allItems \o conn.items
    /\ pc' = "intel"
    /\ conn' = NoConn
    /\ FamilyEnds("RSS", "returned", Len(conn.items))
    /\ UNCHANGED <<opts, errors, stats, stages, saved, requested>>

(***************************************************************************)
(* Stage 1, Intel (runPipeline 187-201, fetchIntelFeeds).  The first       *)
(* MaxIntelSources sources of the table are requested.                     *)
(***************************************************************************)
IntelSkip ==
    /\ pc = "intel" /\ ~opts.useIntel
    /\ pc' = "parse"
    /\ FamilyEnds("Intel", "skipped", 0)
    /\ UNCHANGED <<opts, conn, allItems, errors, stats, stages, saved, requested>>

IntelFetchSource(attempts) ==
    /\ pc = "intel" /\ opts.useIntel
    /\ conn.i <= MaxIntelSources
    /\ LET source == INTEL_SOURCES[conn.i]
           items == fetchRSSFeed(source, Intel, opts.corsProxies, attempts)
       IN  /\ conn' = [conn EXCEPT
                          !.items = @ \o [k \in 1..Len(items) |->
                                            WithIntelType(items[k], source)],
                          !.i = @ + 1]
           /\ requested' = requested \cup
                  {Request("Intel", Intel, source.name,
                           FeedResult(opts.corsProxies, attempts))}
    /\ UNCHANGED <<opts, pc, allItems, errors, stats, stages, saved, fams>>

\* IntelReturn with the records of the intelligence sources put first.
IntelReturnPutsFirst ==
    /\ pc = "intel" /\ opts.useIntel
    /\ conn.i > MaxIntelSources
    /\ allItems' = conn.items \o allItems
    /\ pc' = "parse"
    /\ conn' = NoConn
    /\ FamilyEnds("Intel", "returned", Len(conn.items))
    /\ UNCHANGED <<opts, errors, stats, stages, saved, requested>>

IntelReturn ==
    /\ pc = "intel" /\ opts.useIntel
    /\ conn.i > MaxIntelSources
    /\ allItems' = allItems \o conn.items
    /\ pc' = "parse"
    /\ conn' = NoConn
    /\ FamilyEnds("Intel", "returned", Len(conn.items))
    /\ UNCHANGED <<opts, errors, stats, stages, saved, requested>>

(***************************************************************************)
(* Stages 2 to 5 (runPipeline 203-260)                                     *)
(***************************************************************************)
\* Lines 203-209: every record is replaced by its normalized form.
Parse ==
    /\ pc = "parse"
    /\ \A k \in 1..Len(allItems) : ~normalizeItemThrows(allItems[k])
    /\ allItems' = [k \in 1..Len(allItems) |-> normalizeItem(allItems[k])]
    /\ stats' = [stats EXCEPT !.fetched = Len(allItems), !.parsed = Len(allItems)]
    /\ stages' = Append(stages, "enrich")
    /\ pc' = "filter"
    /\ UNCHANGED <<opts, conn, errors, saved, requested, fams>>

\* ParseThrows keeping the records that map had normalized before the throw.
ParseThrowsKeepsNormalized ==
    /\ pc = "parse"
    /\ \E k \in 1..Len(allItems) : normalizeItemThrows(allItems[k])
    /\ allItems' = [k \in 1..Len(allItems) |->
                       IF \A j \in 1..k : ~normalizeItemThrows(allItems[j])
                       THEN normalizeItem(allItems[k]) ELSE allItems[k]]
    /\ stats' = [stats EXCEPT !.fetched = Len(allItems)]
    /\ errors' = Append(errors, StageError("parse", Undefined, "RangeError"))
    /\ stages' = Append(stages, "enrich")
    /\ pc' = "filter"
    /\ UNCHANGED <<opts, conn, saved, requested, fams>>

\* Lines 203-216 when normalizeItem throws for a record: map throws before
\* the assignment to allItems and before the one to stats.parsed, and the
\* catch records the error.  No record the connectors of Spec are given is
\* long enough for it; SpecParse below has one.
ParseThrows ==
    /\ pc = "parse"
    /\ \E k \in 1..Len(allItems) : normalizeItemThrows(allItems[k])
    /\ stats' = [stats EXCEPT !.fetched = Len(allItems)]
    /\ errors' = Append(errors, StageError("parse", Undefined, "RangeError"))
    /\ stages' = Append(stages, "enrich")
    /\ pc' = "filter"
    /\ UNCHANGED <<opts, conn, allItems, saved, requested, fams>>

\* Object.keys(opts.filter).length > 0
FilterEnabled == opts.filter.keys # {}

FilterSkip ==
    /\ pc = "filter" /\ ~FilterEnabled
    /\ pc' = "dedup"
    /\ UNCHANGED <<opts, conn, allItems, errors, stats, stages, saved, requested, fams>>

\* FilterRun counting the records that were kept.
FilterRunCountsKept ==
    /\ pc = "filter" /\ FilterEnabled
    /\ LET result == filterItems(allItems, opts.filter)
       IN  /\ ~result.threw
           /\ allItems' = result.items
           /\ stats' = [stats EXCEPT !.filtered = Len(result.items)]
    /\ stages' = Append(stages, "filter")
    /\ pc' = "dedup"
    /\ UNCHANGED <<opts, conn, errors, saved, requested, fams>>

\* Lines 220-224.
FilterRun ==
    /\ pc = "filter" /\ FilterEnabled
    /\ LET result == filterItems(allItems, opts.filter)
       IN  /\ ~result.threw
           /\ allItems' = result.items
           /\ stats' = [stats EXCEPT !.filtered = Len(allItems) - Len(result.items)]
    /\ stages' = Append(stages, "filter")
    /\ pc' = "dedup"
    /\ UNCHANGED <<opts, conn, errors, saved, requested, fams>>

\* Line 222 is in no try block: what filterItems throws leaves runPipeline,
\* and the promise it returned is rejected.
FilterThrows ==
    /\ pc = "filter" /\ FilterEnabled
    /\ filterItems(allItems, opts.filter).threw
    /\ stages' = Append(stages, "filter")
    /\ pc' = "rejected"
    /\ UNCHANGED <<opts, conn, allItems, errors, stats, saved, requested, fams>>

\* Lines 229-231.
Dedup ==
    /\ pc = "dedup"
    /\ allItems' = deduplicateItems(allItems)
    /\ stats' = [stats EXCEPT
                    !.deduplicated = Len(allItems) - Len(deduplicateItems(allItems))]
    /\ stages' = Append(stages, "dedup")
    /\ pc' = "sort"
    /\ UNCHANGED <<opts, conn, errors, saved, requested, fams>>

\* Line 235.
Sort ==
    /\ pc = "sort"
    /\ allItems' = sortItems(allItems)
    /\ stages' = Append(stages, "sort")
    /\ pc' = "store"
    /\ UNCHANGED <<opts, conn, errors, stats, saved, requested, fams>>

\* if (opts.storage) is false; the RunResult is returned.
StoreSkip ==
    /\ pc = "store" /\ ~opts.storage
    /\ pc' = "done"
    /\ UNCHANGED <<opts, conn, allItems, errors, stats, stages, saved, requested, fams>>

\* Lines 240-241: save resolves.
StoreSave ==
    /\ pc = "store" /\ opts.storage
    /\ saved' = Append(saved, allItems)
    /\ stages' = Append(stages, "store")
    /\ pc' = "done"
    /\ UNCHANGED <<opts, conn, allItems, errors, stats, requested, fams>>

\* Lines 243-248: save rejects.
StoreSaveThrows ==
    /\ pc = "store" /\ opts.storage
    /\ saved' = Append(saved, allItems)
    /\ errors' = Append(errors, StageError("store", Undefined, "save failed"))
    /\ stages' = Append(stages, "store")
    /\ pc' = "done"
    /\ UNCHANGED <<opts, conn, allItems, stats, requested, fams>>

\* How the attempts of one feed request may end, one per proxy.
AttemptLists == [1..Len(ProxyList(opts.corsProxies)) -> AttemptOutcomes]

Next ==
    \/ GdeltSkip /\ UNCHANGED <<fnVars, ioVars>>
    \/ GdeltNullCategories /\ UNCHANGED <<fnVars, ioVars>>
    \/ GdeltUnknownCategory /\ UNCHANGED <<fnVars, ioVars>>
    \/ \E outcome \in GdeltOutcomes : GdeltRequest(outcome) /\ UNCHANGED <<fnVars, ioVars>>
    \/ GdeltReturn /\ UNCHANGED <<fnVars, ioVars>>
    \/ RssSkip /\ UNCHANGED <<fnVars, ioVars>>
    \/ RssNullCategories /\ UNCHANGED <<fnVars, ioVars>>
    \/ RssCategoryNoFeeds /\ UNCHANGED <<fnVars, ioVars>>
    \/ \E attempts \in AttemptLists : RssFetchFeed(attempts) /\ UNCHANGED <<fnVars, ioVars>>
    \/ RssReturn /\ UNCHANGED <<fnVars, ioVars>>
    \/ IntelSkip /\ UNCHANGED <<fnVars, ioVars>>
    \/ \E attempts \in AttemptLists : IntelFetchSource(attempts) /\ UNCHANGED <<fnVars, ioVars>>
    \/ IntelReturn /\ UNCHANGED <<fnVars, ioVars>>
    \/ Parse /\ UNCHANGED <<fnVars, ioVars>>
    \/ FilterSkip /\ UNCHANGED <<fnVars, ioVars>>
    \/ FilterRun /\ UNCHANGED <<fnVars, ioVars>>
    \/ FilterThrows /\ UNCHANGED <<fnVars, ioVars>>
    \/ Dedup /\ UNCHANGED <<fnVars, ioVars>>
    \/ Sort /\ UNCHANGED <<fnVars, ioVars>>
    \/ StoreSkip /\ UNCHANGED <<fnVars, ioVars>>
    \/ StoreSave /\ UNCHANGED <<fnVars, ioVars>>
    \/ StoreSaveThrows /\ UNCHANGED <<fnVars, ioVars>>

Spec == Init /\ [][Next]_vars

(***************************************************************************)
(* The pure functions on their own: the argument is drawn from the lists   *)
(* of at most MaxLen records over FnPool, and one function is applied.     *)
(***************************************************************************)
MaxLen == 3

\* The records are built by the connectors from what a source serves.
Url1 == <<"u", "/", "1">>
Url2 == <<"u", "/", "2">>
\* Two titles with the fingerprint of "ab", and one with another.
TitleAb == <<"A", "b">>
TitleAb2 == <<"a", " ", "b", "!">>
TitleBa == <<"b", "a">>
Jan(d) == DateStr("iso", 2024, 1, d)
\* "20241301T000000Z": month 13, in the form parseGdeltDate takes apart.
Month13 == DateStr("gdelt", 2024, 13, 1)

FnPool ==
    {transformRSSItem(RssItem(u, t, <<>>, Jan(1)), CSISFeed, Intel) :
        u \in {Url1, Url2}, t \in {TitleAb, TitleAb2, TitleBa}}
    \cup {transformRSSItem(RssItem(Url1, TitleAb, <<>>, d), CSISFeed, Intel) :
            d \in {Jan(2), Jan(3)}}
    \cup {transformArticle(GdeltArticle(u, TitleBa, d), Intel) :
            u \in {Url1, Url2}, d \in {Jan(2), Jan(3), Month13}}

FnInputs == UNION {[1..n -> FnPool] : n \in 0..MaxLen}

InitFn ==
    /\ fnIn \in FnInputs
    /\ fnCfg = NoFilter
    /\ fnOp = "none"
    /\ fnOut = <<>>
    /\ InitRun(Idle) /\ IdlePx /\ IdleJsonl /\ IdleDb /\ IdleNet

ApplyDedup ==
    /\ fnOp = "none"
    /\ fnOp' = "dedup"
    /\ fnOut' = deduplicateItems(fnIn)
    /\ UNCHANGED <<fnIn, fnCfg>>

ApplySort ==
    /\ fnOp = "none"
    /\ fnOp' = "sort"
    /\ fnOut' = sortItems(fnIn)
    /\ UNCHANGED <<fnIn, fnCfg>>

\* Lines 230 and 235 of runPipeline: the list a run returns.
ApplyDedupSort ==
    /\ fnOp = "none"
    /\ fnOp' = "dedupsort"
    /\ fnOut' = sortItems(deduplicateItems(fnIn))
    /\ UNCHANGED <<fnIn, fnCfg>>

NextFn ==
    \/ ApplyDedup /\ UNCHANGED <<runVars, ioVars>>
    \/ ApplySort /\ UNCHANGED <<runVars, ioVars>>
    \/ ApplyDedupSort /\ UNCHANGED <<runVars, ioVars>>

SpecFn == InitFn /\ [][NextFn]_vars

(***************************************************************************)
(* Claims about deduplicateItems and sortItems (checked under SpecFn)      *)
(***************************************************************************)
SameId(a, b) == a.id = b.id
SameFingerprint(a, b) ==
    hashCode(StripNonAlnum(toLowerCase(a.title)))
        = hashCode(StripNonAlnum(toLowerCase(b.title)))

\* The elements of s at the positions in K, in order.
RECURSIVE Restrict(_, _, _)
Restrict(s, K, i) ==
    IF i > Len(s) THEN <<>>
    ELSE (IF i \in K THEN <<s[i]>> ELSE <<>>) \o Restrict(s, K, i + 1)

\* C8: the list deduplicateItems returns, and the sorted list a run returns
\* from it, hold no two records with the same id and no two records with the
\* same title fingerprint.
C8_NoDuplicateIdOrFingerprint ==
    fnOp \in {"dedup", "dedupsort"} =>
        \A i, j \in 1..Len(fnOut) :
            i < j => ~SameId(fnOut[i], fnOut[j]) /\ ~SameFingerprint(fnOut[i], fnOut[j])

\* Witness of C8: a call that dropped one record for its id and one for its
\* title fingerprint.
C8_Witness ==
    /\ fnOp = "dedup"
    /\ Len(fnIn) = 3
    /\ Len(fnOut) = 1
    /\ SameId(fnIn[1], fnIn[2]) /\ ~SameFingerprint(fnIn[1], fnIn[2])
    /\ ~SameId(fnIn[1], fnIn[3]) /\ SameFingerprint(fnIn[1], fnIn[3])
    /\ fnIn[1].title # fnIn[3].title

\* The positions of the input that deduplicateItems keeps are the set K with:
\* a position is out of K iff an earlier position of K has the same id or the
\* same fingerprint.
IsKeptSet(K) ==
    \A i \in 1..Len(fnIn) :
        i \notin K <=>
            \E j \in K : j < i /\ (SameId(fnIn[j], fnIn[i]) \/ SameFingerprint(fnIn[j], fnIn[i]))

\* C9 (as amended): deduplicateItems returns the order-preserving subsequence
\* of its input in which a record is dropped iff an earlier KEPT record has the
\* same id or the same title fingerprint, and the seen sets end up holding
\* exactly the ids and the fingerprints of the kept records.
C9_DroppedIffEarlierKeptMatches ==
    fnOp = "dedup" =>
        /\ \E K \in SUBSET (1..Len(fnIn)) :
              IsKeptSet(K) /\ fnOut = Restrict(fnIn, K, 1)
        /\ LET st == DedupLoop(<<(<<>>), {}>>, fnIn)
           IN  /\ {st[1][k].id : k \in 1..Len(st[1])} = {fnOut[k].id : k \in 1..Len(fnOut)}
               /\ st[2] = {hashCode(StripNonAlnum(toLowerCase(fnOut[k].title))) :
                              k \in 1..Len(fnOut)}

\* Witness of C9: three records, the second a duplicate of the first by title
\* and of the third by id; the first and the third are kept.
C9_Witness ==
    /\ fnOp = "dedup"
    /\ Len(fnIn) = 3
    /\ ~SameId(fnIn[1], fnIn[2]) /\ SameFingerprint(fnIn[1], fnIn[2])
    /\ SameId(fnIn[2], fnIn[3]) /\ ~SameFingerprint(fnIn[2], fnIn[3])
    /\ fnOut = <<fnIn[1], fnIn[3]>>

\* C9 as stated: in every group of duplicates the survivor is the record that
\* came first in the input, that is, no record of the output has an earlier
\* record of the input with its id or with its fingerprint.
C9_SurvivorIsFirstOfItsGroup ==
    fnOp = "dedup" =>
        \E K \in SUBSET (1..Len(fnIn)) :
            /\ fnOut = Restrict(fnIn, K, 1)
            /\ \A i \in K : \A j \in 1..(i - 1) :
                   ~SameId(fnIn[j], fnIn[i]) /\ ~SameFingerprint(fnIn[j], fnIn[i])

\* p maps the positions of out one-to-one onto the positions of in.
IsPermutationBy(p, out, in) ==
    /\ Len(out) = Len(in)
    /\ \A i, j \in 1..Len(out) : i # j => p[i] # p[j]
    /\ \A i \in 1..Len(out) : out[i] = in[p[i]]

Newer(a, b) ==
    /\ ~IsNaN(getTime(a.published_at)) /\ ~IsNaN(getTime(b.published_at))
    /\ getTime(a.published_at).t > getTime(b.published_at).t

\* out is in with its positions permuted by some p that keeps records of
\* equal published_at in their input order.
IsStablePermutation(out, in) ==
    \E p \in [1..Len(out) -> 1..Len(in)] :
        /\ IsPermutationBy(p, out, in)
        /\ \A i, j \in 1..Len(out) :
              i < j /\ out[i].published_at = out[j].published_at => p[i] < p[j]

NewestFirst(out) ==
    \A i, j \in 1..Len(out) : i < j => ~Newer(out[j], out[i])

\* C10 as stated: sortItems returns a permutation of its input in which no
\* record comes after an older one, and records of equal published_at keep
\* their input order.
C10_SortedNewestFirstStable ==
    fnOp = "sort" => IsStablePermutation(fnOut, fnIn) /\ NewestFirst(fnOut)

\* What holds of sortItems: the same, for a list in which every published_at
\* parses.
SortValidDates ==
    (fnOp = "sort" /\ \A k \in 1..Len(fnIn) : ~IsNaN(getTime(fnIn[k].published_at)))
        => IsStablePermutation(fnOut, fnIn) /\ NewestFirst(fnOut)

\* C11 as stated: in what sortItems returns, a record whose published_at does
\* not parse comes after every record whose published_at parses.
C11_UnparsableDatesSortLast ==
    fnOp = "sort" =>
        \A i, j \in 1..Len(fnOut) :
            (/\ IsNaN(getTime(fnOut[i].published_at))
             /\ ~IsNaN(getTime(fnOut[j].published_at))) => j < i

(***************************************************************************)
(* filterItems on its own: the records are built by the connectors (plain  *)
(* text, which normalizeItem leaves as it is), the configuration is a      *)
(* FilterConfig whose lists hold strings.                                  *)
(***************************************************************************)
FilterPool ==
    {transformRSSItem(
         RssItem(<<"c", "/", "1">>, <<"N", "a", "t", "o", " ", "w", "a", "r">>,
                 <<>>, Jan(3)), CSISFeed, Intel),
     transformRSSItem(
         RssItem(<<"b", "/", "1">>, <<"F", "e", "d">>, <<>>, Jan(1)),
         BrookingsFeed, Intel),
     transformRSSItem(
         RssItem(<<"o", "/", "1">>, <<"A", "I">>, <<"I", "r", "a", "n">>, Jan(2)),
         OpenAIBlog, Ai),
     transformArticle(
         GdeltArticle(<<"g", "/", "1">>, <<"H", "a", "c", "k">>, Month13), Intel),
     transformArticle(
         GdeltArticle(<<"g", "/", "2">>, <<"C", "y", "b", "e", "r", " ", "E", "U">>,
                      DateStr("gdelt", 2024, 1, 4)), Ai),
     transformArticle(
         GdeltArticle(<<"g", "/", "3">>, <<"F", "e", "d">>,
                      DateStr("gdelt", 2023, 12, 31)), Ai)}

\* FilterConfigs whose lists hold strings (keys is read by runPipeline, not
\* by filterItems); {} and { categories: [], ...,
\* max_age_ms: 0 } read alike in filterItems.
FilterFnConfigs ==
    {NoFilter,
     [NoFilter EXCEPT !.categories = <<Intel>>],
     [NoFilter EXCEPT !.categories = <<Ai, General>>],
     [NoFilter EXCEPT !.categories = <<General>>],
     [NoFilter EXCEPT !.regions = <<"EUROPE">>],
     [NoFilter EXCEPT !.regions = <<"MENA", "EUROPE">>],
     [NoFilter EXCEPT !.topics = <<"CYBER">>],
     [NoFilter EXCEPT !.include_keywords = <<<<"F", "E", "D">>, <<"n", "a", "t", "o">>>>],
     [NoFilter EXCEPT !.exclude_keywords = <<<<"a", "i">>>>],
     [NoFilter EXCEPT !.max_age_ms = 1],
     [NoFilter EXCEPT !.max_age_ms = 2],
     [NoFilter EXCEPT !.max_age_ms = 4],
     [NoFilter EXCEPT !.categories = <<Intel>>, !.regions = <<"EUROPE">>,
                      !.exclude_keywords = <<<<"f", "e", "d">>>>,
                      !.max_age_ms = 3]}

InitFilter ==
    /\ fnIn \in UNION {[1..n -> FilterPool] : n \in 0..MaxLen}
    /\ fnCfg \in FilterFnConfigs
    /\ fnOp = "none"
    /\ fnOut = <<>>
    /\ InitRun(Idle) /\ IdlePx /\ IdleJsonl /\ IdleDb /\ IdleNet

\* filterItems(fnIn, fnCfg): Array.prototype.filter builds a new list and the
\* callback assigns to nothing, so the argument is as it was.
ApplyFilter ==
    /\ fnOp = "none"
    /\ LET result == filterItems(fnIn, fnCfg)
       IN  /\ fnOp' = IF result.threw THEN "filter threw" ELSE "filter"
           /\ fnOut' = result.items
    /\ UNCHANGED <<fnIn, fnCfg>>

NextFilter == ApplyFilter /\ UNCHANGED <<runVars, ioVars>>

SpecFilter == InitFilter /\ [][NextFilter]_vars

(***************************************************************************)
(* Claims about filterItems (checked under SpecFilter)                     *)
(***************************************************************************)
NoPredicateSet(config) ==
    /\ Len(config.categories) = 0 /\ Len(config.regions) = 0
    /\ Len(config.topics) = 0 /\ Len(config.include_keywords) = 0
    /\ Len(config.exclude_keywords) = 0 /\ config.max_age_ms = 0

\* out is in, less some of its elements, in the order of in.
RECURSIVE IsSubsequence(_, _)
IsSubsequence(out, in) ==
    IF out = <<>> THEN TRUE
    ELSE IF in = <<>> THEN FALSE
    ELSE IF Head(out) = Head(in) THEN IsSubsequence(Tail(out), Tail(in))
    ELSE IsSubsequence(out, Tail(in))

\* C12: filterItems with a configuration in which no predicate is set returns
\* every record of its argument in the order of the argument; with any
\* configuration it returns a subsequence of its argument, the records
\* themselves as they were.
C12_FilterReturnsSubsequence ==
    fnOp # "none" =>
        /\ fnOp = "filter"
        /\ IsSubsequence(fnOut, fnIn)
        /\ NoPredicateSet(fnCfg) => fnOut = fnIn

\* A call that drops the first and the last record of three and keeps the
\* second, and a call without a predicate on a list of records.
C12_Witness ==
    \/ /\ fnOp = "filter" /\ Len(fnIn) = 3 /\ fnOut = <<fnIn[2]>>
       /\ fnIn[1] # fnIn[2] /\ fnIn[3] # fnIn[2]
    \/ /\ fnOp = "filter" /\ NoPredicateSet(fnCfg) /\ Len(fnOut) = 3

\* C13 as stated: with a non-empty list of categories every record returned
\* has a category of the list; with a non-empty list of regions every record
\* returned has a region, and it is of the list.
C13_AllowedCategoriesAndRegions ==
    fnOp = "filter" =>
        /\ Len(fnCfg.categories) > 0 =>
               \A k \in 1..Len(fnOut) :
                   Contains(fnCfg.categories, fnOut[k].metadata.category)
        /\ Len(fnCfg.regions) > 0 =>
               \A k \in 1..Len(fnOut) :
                   /\ fnOut[k].metadata.region # Undefined
                   /\ Contains(fnCfg.regions, fnOut[k].metadata.region)

\* What holds of the lists of filterItems: the record returned has a category
\* of the list, and a region of the list or no region.
AllowedListsOfTheCode ==
    fnOp = "filter" =>
        /\ Len(fnCfg.categories) > 0 =>
               \A k \in 1..Len(fnOut) :
                   Contains(fnCfg.categories, fnOut[k].metadata.category)
        /\ Len(fnCfg.regions) > 0 =>
               \A k \in 1..Len(fnOut) :
                   \/ fnOut[k].metadata.region = Undefined
                   \/ Contains(fnCfg.regions, fnOut[k].metadata.region)

\* The age of a record in days, when its published_at parses.
HasAge(item) == ~IsNaN(getTime(item.published_at))
Age(item) == getTime(NowIso).t - getTime(item.published_at).t

OnlyMaxAge(config) ==
    /\ Len(config.categories) = 0 /\ Len(config.regions) = 0
    /\ Len(config.topics) = 0 /\ Len(config.include_keywords) = 0
    /\ Len(config.exclude_keywords) = 0 /\ config.max_age_ms # 0

NotOlder(item) == ~(HasAge(item) /\ Age(item) > fnCfg.max_age_ms)

\* C14: with a maximum age set (max_age_ms not 0) filterItems returns no
\* record published more than that age before the current time, and, the
\* other predicates unset, returns every record that is not older.
C14_MaxAgeWindow ==
    (fnOp = "filter" /\ fnCfg.max_age_ms # 0) =>
        /\ \A k \in 1..Len(fnOut) : NotOlder(fnOut[k])
        /\ OnlyMaxAge(fnCfg) => fnOut = SelectSeq(fnIn, NotOlder)

\* A maximum age of one day: the record published two days ago is dropped,
\* the record published one day ago is kept.
C14_Witness ==
    /\ fnOp = "filter" /\ OnlyMaxAge(fnCfg) /\ fnCfg.max_age_ms = 1
    /\ Len(fnIn) = 2 /\ HasAge(fnIn[1]) /\ HasAge(fnIn[2])
    /\ Age(fnIn[1]) = 2 /\ Age(fnIn[2]) = 1
    /\ fnOut = <<fnIn[2]>>

(***************************************************************************)
(* The connectors' transforms on their own: two answers of sources, each   *)
(* an article of GDELT with the category it was asked under or an item of  *)
(* a feed with its source and category, are turned into records.  (The     *)
(* source of an article is not read.)                                      *)
(***************************************************************************)
TransformInputs ==
    {[family |-> "GDELT", category |-> c, source |-> CSISFeed,
      answer |-> [GdeltArticle(u, TitleAb, Jan(1)) EXCEPT !.domain = d]] :
        c \in {Ai, Intel}, u \in {Url1, Url2}, d \in {<<>>, <<"x", ".", "i", "o">>}}
    \cup {[family |-> "RSS", category |-> Intel, source |-> src,
           answer |-> RssItem(u, t, <<>>, Jan(1))] :
            src \in {CSISFeed, BrookingsFeed}, u \in {<<>>, Url1},
            t \in {TitleAb, TitleBa}}

InitTransform ==
    /\ fnIn \in [1..2 -> TransformInputs]
    /\ fnCfg = NoFilter
    /\ fnOp = "none"
    /\ fnOut = <<>>
    /\ InitRun(Idle) /\ IdlePx /\ IdleJsonl /\ IdleDb /\ IdleNet

\* articles.map(transformArticle) and items.map(transformRSSItem)
ApplyTransform ==
    /\ fnOp = "none"
    /\ fnOp' = "transform"
    /\ fnOut' = [k \in 1..Len(fnIn) |->
                    IF fnIn[k].family = "GDELT"
                    THEN transformArticle(fnIn[k].answer, fnIn[k].category)
                    ELSE transformRSSItem(fnIn[k].answer, fnIn[k].source,
                                          fnIn[k].category)]
    /\ UNCHANGED <<fnIn, fnCfg>>

NextTransform == ApplyTransform /\ UNCHANGED <<runVars, ioVars>>

SpecTransform == InitTransform /\ [][NextTransform]_vars

\* C15 as stated: two records the connectors produce with the same source
\* and the same url have the same id.
C15_IdDependsOnSourceAndUrl ==
    fnOp = "transform" =>
        \A i, j \in 1..Len(fnOut) :
            (fnOut[i].source = fnOut[j].source /\ fnOut[i].url = fnOut[j].url)
                => fnOut[i].id = fnOut[j].id

\* What holds of the ids: the id is the same when the string hashed as the
\* source (the feed name, or gdelt- and the category) and the string hashed
\* as the url (the link, or the title of an item without a link) are.
IdOfWhatIsHashed ==
    fnOp = "transform" =>
        \A i, j \in 1..Len(fnOut) :
            LET HashedSource(in) == IF in.family = "GDELT"
                                    THEN GdeltSourceName(in.category)
                                    ELSE in.source.name
                HashedUrl(in) == IF in.family = "GDELT" THEN in.answer.url
                                 ELSE IF in.answer.link # <<>> THEN in.answer.link
                                 ELSE in.answer.title
            IN  (/\ HashedSource(fnIn[i]) = HashedSource(fnIn[j])
                 /\ HashedUrl(fnIn[i]) = HashedUrl(fnIn[j]))
                    => fnOut[i].id = fnOut[j].id

(***************************************************************************)
(* normalizeItem on its own.  The argument is a record of a feed item in   *)
(* which topics, tickers and region are as given by the caller, and        *)
(* is_alert and alert_keyword are given or undefined.                      *)
(***************************************************************************)
NormalizeInputs ==
    {[transformRSSItem(RssItem(Url1, title, <<>>, Jan(1)), CSISFeed, Intel) EXCEPT
         !.topics = topics, !.tickers = tickers,
         !.metadata = [category |-> Intel, region |-> region,
                       intel_type |-> Undefined] @@ alert] :
        title \in {<<"N", "a", "t", "o", " ", "w", "a", "r", " ", "$", "A", "A", "P", "L">>,
                   <<"F", "e", "d">>,
                   <<"<", "b", ">", "B", "T", "C", "<", "/", "b", ">", " ", "h", "a", "c", "k">>},
        topics \in {<<>>, <<"TECH">>},
        tickers \in {<<>>, <<<<"X", "Y", "Z">>>>},
        region \in {Undefined, "ASIA"},
        alert \in {<<>>,
                   [alert_keyword |-> <<"x">>],
                   [is_alert |-> FALSE],
                   [is_alert |-> TRUE, alert_keyword |-> <<"x">>]}}

InitNormalize ==
    /\ fnIn \in [1..1 -> NormalizeInputs]
    /\ fnCfg = NoFilter
    /\ fnOp = "none"
    /\ fnOut = <<>>
    /\ InitRun(Idle) /\ IdlePx /\ IdleJsonl /\ IdleDb /\ IdleNet

ApplyNormalize ==
    /\ fnOp = "none"
    /\ fnOp' = "normalize"
    /\ fnOut' = <<normalizeItem(fnIn[1])>>
    /\ UNCHANGED <<fnIn, fnCfg>>

NextNormalize == ApplyNormalize /\ UNCHANGED <<runVars, ioVars>>

SpecNormalize == InitNormalize /\ [][NextNormalize]_vars

\* The text normalizeItem derives from: the cleaned title, summary and
\* content, joined by spaces.
TextOf(item) ==
    cleanText(item.title) \o <<" ">> \o cleanText(item.summary)
        \o <<" ">> \o cleanText(item.content_text)

\* C16: normalizeItem returns the topics and the tickers of its argument when
\* the list is not empty, its region when it is defined, and its is_alert
\* with its alert_keyword when is_alert is defined; what is empty or
\* undefined it derives from the text of the record (topics, tickers and
\* region) and from its title (is_alert and alert_keyword).
C16_NormalizeKeepsPopulatedFields ==
    fnOp = "normalize" =>
        LET in == fnIn[1]
            out == fnOut[1]
            derived == containsAlertKeyword(cleanText(in.title))
        IN  /\ out.topics = IF Len(in.topics) > 0 THEN in.topics
                            ELSE detectTopics(TextOf(in))
            /\ out.tickers = IF Len(in.tickers) > 0 THEN in.tickers
                             ELSE extractTickers(TextOf(in))
            /\ out.metadata.region =
                   IF in.metadata.region # Undefined THEN in.metadata.region
                   ELSE OrUndefined(detectRegion(TextOf(in)))
            /\ IF "is_alert" \in DOMAIN in.metadata
               THEN /\ out.metadata.is_alert = in.metadata.is_alert
                    /\ out.metadata.alert_keyword =
                           IF "alert_keyword" \in DOMAIN in.metadata
                           THEN in.metadata.alert_keyword ELSE <<>>
               ELSE /\ out.metadata.is_alert = derived.is_alert
                    /\ out.metadata.alert_keyword = derived.keyword

\* A record with topics and is_alert given and no tickers and no region: the
\* topics are not the ones its text has, is_alert stays false though the
\* title has an alert keyword, and tickers and region come from the text.
C16_Witness ==
    /\ fnOp = "normalize"
    /\ Len(fnIn[1].topics) > 0 /\ fnOut[1].topics = fnIn[1].topics
    /\ fnOut[1].topics # detectTopics(TextOf(fnIn[1]))
    /\ "is_alert" \in DOMAIN fnIn[1].metadata
    /\ ~fnOut[1].metadata.is_alert
    /\ containsAlertKeyword(cleanText(fnIn[1].title)).is_alert
    /\ fnIn[1].tickers = <<>> /\ fnOut[1].tickers = <<<<"A", "A", "P", "L">>>>
    /\ fnIn[1].metadata.region = Undefined /\ fnOut[1].metadata.region = "EUROPE"

(***************************************************************************)
(* fetchWithProxy step by step (connectors/rss.ts 115-161): one request    *)
(* per turn of the loop.  px.sent lists the proxy prefix of every request  *)
(* made, px.ended how each ended.                                          *)
(***************************************************************************)
MaxProxies == 3

InitProxy ==
    /\ \E n \in 0..MaxProxies :
          \E corsProxies \in [1..n -> {"proxy1", "proxy2"}] :
              px = [corsProxies |-> corsProxies,
                    proxies |-> ProxyList(corsProxies), k |-> 1, sent |-> <<>>,
                    ended |-> <<>>, result |-> "pending"]
    /\ InitRun(Idle) /\ IdleFn /\ IdleJsonl /\ IdleDb /\ IdleNet

\* ProxyAttempt going on to the next proxy after an answer it accepts.
ProxyAttemptGoesOn(outcome) ==
    /\ px.result = "pending" /\ px.k <= Len(px.proxies)
    /\ px' = [px EXCEPT !.sent = Append(@, px.proxies[px.k]),
                        !.ended = Append(@, outcome),
                        !.k = @ + 1]

\* One turn of the loop: fetch through proxy k; return text when the answer
\* is ok and looks like XML, else continue (or catch) and take the next.
ProxyAttempt(outcome) ==
    /\ px.result = "pending" /\ px.k <= Len(px.proxies)
    /\ px' = [px EXCEPT !.sent = Append(@, px.proxies[px.k]),
                        !.ended = Append(@, outcome),
                        !.k = IF outcome = "ok" THEN @ ELSE @ + 1,
                        !.result = IF outcome = "ok" THEN "text" ELSE @]

\* The loop is over: return null (fetchRSSFeed then returns []).
ProxyReturnNull ==
    /\ px.result = "pending" /\ px.k > Len(px.proxies)
    /\ px' = [px EXCEPT !.result = "null"]

NextProxy ==
    \/ \E outcome \in AttemptOutcomes :
          ProxyAttempt(outcome) /\ UNCHANGED <<runVars, fnVars, jsonl, db, net>>
    \/ ProxyReturnNull /\ UNCHANGED <<runVars, fnVars, jsonl, db, net>>

SpecProxy == InitProxy /\ [][NextProxy]_vars

\* C17: the requests of fetchWithProxy go through the proxies in list order,
\* one request each (a single direct request when no proxy is configured);
\* every request before the last one failed; the call returns the text with
\* the first request that succeeds, the k-th request when proxy k is the
\* first to succeed, and returns null when every proxy was tried and failed.
C17_ProxiesInOrderUntilFirstSuccess ==
    LET n == Len(px.sent)
    IN  /\ n <= Len(px.proxies)
        /\ px.sent = SubSeq(px.proxies, 1, n)
        /\ Len(px.ended) = n
        /\ \A i \in 1..(n - 1) : px.ended[i] # "ok"
        /\ px.result = "text" <=> (n > 0 /\ px.ended[n] = "ok")
        /\ px.result = "null" =>
               (n = Len(px.proxies) /\ \A i \in 1..n : px.ended[i] # "ok")
        /\ IF Len(px.corsProxies) = 0
           THEN px.sent = <<>> \/ px.sent = <<"">>
           ELSE px.sent = SubSeq(px.corsProxies, 1, n)

\* Three proxies: the first fails, the second succeeds with the second
\* request, the third is not tried.
C17_Witness ==
    /\ Len(px.proxies) = 3 /\ px.result = "text"
    /\ px.sent = <<px.proxies[1], px.proxies[2]>>
    /\ px.ended[1] # "ok" /\ px.ended[2] = "ok"

(***************************************************************************)
(* Claims about runPipeline (checked under Spec)                           *)
(***************************************************************************)
Enabled(f) ==
    CASE f = "GDELT" -> opts.useGdelt
      [] f = "RSS" -> opts.useRss
      [] f = "Intel" -> opts.useIntel

Resolved == pc = "done"
Finished == pc \in {"done", "rejected"}
FetchOver == pc \notin {"gdelt", "rss", "intel"}

\* The positions of errors that hold a StageError of the fetch of family f.
FetchErrors(f) ==
    {k \in 1..Len(errors) : errors[k].stage = "fetch" /\ errors[k].source = f}

\* The family a record of a run came from: the GDELT articles of the model
\* name no domain, and only fetchIntelFeeds sets intel_type.
FromFamily(item, f) ==
    CASE f = "GDELT" -> item.source = SrcGDELT
      [] f = "Intel" -> item.source # SrcGDELT /\ item.metadata.intel_type # Undefined
      [] f = "RSS" -> item.source # SrcGDELT /\ item.metadata.intel_type = Undefined

WasRequested(family, category, source) ==
    \E r \in requested :
        r.family = family /\ r.category = category /\ r.source = source

EndedOk(family, category, source) ==
    Request(family, category, source, "ok") \in requested

\* Every request of the loop of family f was made.
AllRequested(f) ==
    CASE f = "GDELT" ->
            \A i \in 1..Len(Categories) : WasRequested("GDELT", Categories[i], <<>>)
      [] f = "RSS" ->
            \A i \in 1..Len(Categories) :
                \A k \in 1..Len(FEEDS(Categories[i])) :
                    WasRequested("RSS", Categories[i], FEEDS(Categories[i])[k].name)
      [] f = "Intel" ->
            \A k \in 1..MaxIntelSources :
                WasRequested("Intel", Intel, INTEL_SOURCES[k].name)

\* C1 as stated: runPipeline never rejects, whatever stage fails.
C1_RunNeverRejects == pc # "rejected"

\* C2: when the fetch of a family throws, errors holds exactly one StageError
\* of stage 'fetch' naming that family, no record of the run comes from that
\* family, and every other enabled family is still fetched: it returns after
\* all its requests, or throws itself.
C2_FamilyThrowIsContained ==
    \A f \in Families :
        fams[f].status = "threw" =>
            /\ Cardinality(FetchErrors(f)) = 1
            /\ \A k \in 1..Len(allItems) : ~FromFamily(allItems[k], f)
            /\ FetchOver =>
                  \A g \in Families \ {f} :
                      Enabled(g) =>
                          \/ fams[g].status = "threw"
                          \/ fams[g].status = "returned" /\ AllRequested(g)

\* Witness of C2: a resolved run in which GDELT threw after a request that had
\* brought records, and RSS contributed records.
C2_Witness ==
    /\ Resolved
    /\ fams["GDELT"].status = "threw"
    /\ EndedOk("GDELT", Intel, <<>>)
    /\ fams["RSS"].status = "returned" /\ fams["RSS"].count > 0
    /\ \E k \in 1..Len(allItems) : FromFamily(allItems[k], "RSS")

\* C3 as stated: every run goes through fetch, enrich, filter, dedup, sort and
\* store in this order, each at most once; filter iff the filter config has a
\* key, store iff a storage adapter is given, dedup and sort in every run.
C3_StagesInFixedOrder ==
    Finished =>
        stages = <<"fetch", "enrich">>
                    \o (IF FilterEnabled THEN <<"filter">> ELSE <<>>)
                    \o <<"dedup", "sort">>
                    \o (IF opts.storage THEN <<"store">> ELSE <<>>)

\* C4 as stated: the store stage runs iff an adapter is given; save is called
\* exactly once, with the list the run returns; a save that throws adds one
\* StageError of stage 'store'.
C4_StoreIffAdapter ==
    Finished =>
        /\ opts.storage <=> Contains(stages, "store")
        /\ saved = IF opts.storage THEN <<allItems>> ELSE <<>>
        /\ Cardinality({k \in 1..Len(errors) : errors[k].stage = "store"}) <= 1

\* What holds of C3 and C4: the same, of the runs that resolve.
StagesOfResolvedRun ==
    Resolved =>
        stages = <<"fetch", "enrich">>
                    \o (IF FilterEnabled THEN <<"filter">> ELSE <<>>)
                    \o <<"dedup", "sort">>
                    \o (IF opts.storage THEN <<"store">> ELSE <<>>)

StoreOfResolvedRun ==
    Resolved =>
        /\ opts.storage <=> Contains(stages, "store")
        /\ saved = IF opts.storage THEN <<allItems>> ELSE <<>>
        /\ Cardinality({k \in 1..Len(errors) : errors[k].stage = "store"}) <= 1

\* C5 as stated: for every request that failed, the errors of the returned
\* RunResult hold a StageError of stage 'fetch' naming its family.
C5_FetchFailureIsReported ==
    Resolved =>
        \A r \in requested : r.result = "failed" => FetchErrors(r.family) # {}

\* C6 as stated: a category without configuration ('general') makes no
\* StageError, and the families that loop over the categories still return
\* what their other categories brought.
C6_UnconfiguredCategoryIsSilent ==
    (FetchOver /\ ~opts.categories.isNull /\ Contains(Categories, General)) =>
        \A f \in {"GDELT", "RSS"} :
            Enabled(f) => fams[f].status = "returned" /\ FetchErrors(f) = {}

\* What holds of C6: RSS passes over a category without feeds.
RssUnconfiguredCategoryIsSilent ==
    (FetchOver /\ ~opts.categories.isNull /\ Contains(Categories, General)) =>
        (opts.useRss => fams["RSS"].status = "returned" /\ FetchErrors("RSS") = {})

RECURSIVE Flatten(_)
Flatten(lists) ==
    IF lists = <<>> THEN <<>> ELSE Head(lists) \o Flatten(Tail(lists))

\* What a family that returned must have brought: for each of its requests
\* in order, the records of the request if it ended "ok", nothing otherwise.
ExpectedGdelt ==
    Flatten([i \in 1..Len(Categories) |->
                IF EndedOk("GDELT", Categories[i], <<>>)
                THEN GdeltRecords[Categories[i]] ELSE <<>>])

ExpectedRssCategory(category) ==
    Flatten([k \in 1..Len(FEEDS(category)) |->
                IF EndedOk("RSS", category, FEEDS(category)[k].name)
                THEN RssRecords[<<category, FEEDS(category)[k]>>] ELSE <<>>])

ExpectedRss ==
    Flatten([i \in 1..Len(Categories) |-> ExpectedRssCategory(Categories[i])])

ExpectedIntel ==
    Flatten([k \in 1..MaxIntelSources |->
                IF EndedOk("Intel", Intel, INTEL_SOURCES[k].name)
                THEN LET items == RssRecords[<<Intel, INTEL_SOURCES[k]>>]
                     IN  [n \in 1..Len(items) |->
                            WithIntelType(items[n], INTEL_SOURCES[k])]
                ELSE <<>>])

Expected(f) ==
    IF fams[f].status # "returned" THEN <<>>
    ELSE CASE f = "GDELT" -> ExpectedGdelt
           [] f = "RSS" -> ExpectedRss
           [] f = "Intel" -> ExpectedIntel

\* C7: a request that fails brings nothing and costs nothing else: at the end
\* of the fetch stage every family that returned has made all its requests,
\* and the list holds, family by family and request by request, the records
\* of every request that succeeded.
C7_FailureCostsOnlyItsOwnRequest ==
    pc = "parse" =>
        /\ allItems = Expected("GDELT") \o Expected("RSS") \o Expected("Intel")
        /\ \A f \in Families : fams[f].status = "returned" => AllRequested(f)

\* Witness of C7: the GDELT request of ai failed and that of intel, made after
\* it, brought its records; the first feed of intel failed and the second,
\* requested after it, brought its record.
C7_Witness ==
    /\ pc = "parse"
    /\ Request("GDELT", Ai, <<>>, "failed") \in requested
    /\ EndedOk("GDELT", Intel, <<>>)
    /\ Request("RSS", Intel, CSISFeed.name, "failed") \in requested
    /\ EndedOk("RSS", Intel, BrookingsFeed.name)
    /\ \E k \in 1..Len(allItems) : FromFamily(allItems[k], "GDELT")
    /\ \E k \in 1..Len(allItems) : allItems[k].source = BrookingsFeed.name

(***************************************************************************)
(* JsonlStorage (storage/jsonl.ts).  The file is the list of its lines,    *)
(* each ended by a newline.  A line is written by its kind: "object" is a  *)
(* whole JSON object, the other kinds are the pieces JSON.stringify(item,  *)
(* null, 2) spreads over lines of their own.                               *)
(***************************************************************************)
\* JSON.stringify leaves out the properties whose value is undefined.
JsonText(item) ==
    LET md == item.metadata
        defined == {"category", "is_alert"}
                   \cup (IF md.alert_keyword # <<>> THEN {"alert_keyword"} ELSE {})
                   \cup (IF md.region # Undefined THEN {"region"} ELSE {})
                   \cup (IF md.intel_type # Undefined THEN {"intel_type"} ELSE {})
    IN  [item EXCEPT !.metadata = [k \in defined |-> md[k]]]

\* JSON.parse of the text of an object: a property that is not there reads
\* as undefined.
JsonObject(text) ==
    LET md == text.metadata
    IN  [text EXCEPT !.metadata =
            [category      |-> md.category,
             is_alert      |-> md.is_alert,
             alert_keyword |-> IF "alert_keyword" \in DOMAIN md
                               THEN md.alert_keyword ELSE <<>>,
             region        |-> IF "region" \in DOMAIN md THEN md.region
                               ELSE Undefined,
             intel_type    |-> IF "intel_type" \in DOMAIN md THEN md.intel_type
                               ELSE Undefined]]

Line(kind, text, comma) == [kind |-> kind, text |-> text, comma |-> comma]

\* JSON.stringify(item, null, 2): the braces, every property and every
\* element of a list that is not empty on a line of its own.
PrettyLines(item) ==
    LET text == JsonText(item)
        Scalar(key, last) == <<Line("property", <<key>>, ~last)>>
        List(key) ==
            IF Len(text[key]) = 0 THEN <<Line("property", <<key, "[]">>, TRUE)>>
            ELSE <<Line("property", <<key, "[">>, FALSE)>>
                 \o [k \in 1..Len(text[key]) |->
                        Line("element", text[key][k], k < Len(text[key]))]
                 \o <<Line("]", <<>>, TRUE)>>
        mdKeys == SelectSeq(<<"category", "is_alert", "alert_keyword", "region",
                              "intel_type">>,
                            LAMBDA k : k \in DOMAIN text.metadata)
    IN  <<Line("{", <<>>, FALSE)>>
        \o Scalar("id", FALSE) \o Scalar("source", FALSE) \o Scalar("url", FALSE)
        \o Scalar("title", FALSE) \o Scalar("published_at", FALSE)
        \o Scalar("summary", FALSE) \o Scalar("content_text", FALSE)
        \o List("tickers") \o List("topics")
        \o <<Line("property", <<"metadata", "{">>, FALSE)>>
        \o [k \in 1..Len(mdKeys) |-> Line("property", <<mdKeys[k]>>, k < Len(mdKeys))]
        \o <<Line("}", <<>>, FALSE), Line("}", <<>>, FALSE)>>

\* JSON.parse(line): an object, the string of a line that holds nothing but
\* a string, or a SyntaxError.
JsonParseLine(line) ==
    IF line.kind = "object"
    THEN [threw |-> FALSE, item |-> [kind |-> "object", value |-> JsonObject(line.text)]]
    ELSE IF line.kind = "element" /\ ~line.comma
    THEN [threw |-> FALSE, item |-> [kind |-> "string", value |-> line.text]]
    ELSE [threw |-> TRUE, item |-> [kind |-> "none", value |-> <<>>]]

MaxCalls == 3

\* The records given to save: built by the connectors, then normalizeItem.
StoredA ==
    normalizeItem(transformRSSItem(
        RssItem(<<"c", "/", "1">>,
                <<"N", "a", "t", "o", " ", "$", "A", "A", "P", "L", " ", "b", "t", "c">>,
                <<>>, Jan(3)), CSISFeed, Intel))
StoredB ==
    normalizeItem(transformArticle(
        GdeltArticle(<<"g", "/", "1">>, <<"H", "a", "c", "k">>, Jan(2)), Intel))
StoredC ==
    normalizeItem(transformArticle(
        GdeltArticle(<<"g", "/", "2">>, <<"x">>, DateStr("gdelt", 2024, 1, 1)), Ai))

SaveLists == {<<>>, <<StoredA>>, <<StoredB, StoredA>>, <<StoredC>>}

InitJsonl ==
    /\ \E append \in BOOLEAN, pretty \in BOOLEAN :
          jsonl = [append |-> append, pretty |-> pretty, exists |-> FALSE,
                   lines |-> <<>>, saves |-> <<>>, calls |-> 0,
                   loaded |-> <<>>, last |-> "none"]
    /\ InitRun(Idle) /\ IdleFn /\ IdlePx /\ IdleDb /\ IdleNet

\* save: the lines of the items (JSON.stringify(item) is one line) joined by
\* newlines and a newline at the end (an empty line when there is no item),
\* appended to the file or written in its place.
JsonlSave(items) ==
    /\ jsonl.calls < MaxCalls
    /\ LET content == IF Len(items) = 0 THEN <<Line("", <<>>, FALSE)>>
                      ELSE Flatten([k \in 1..Len(items) |->
                                      IF jsonl.pretty THEN PrettyLines(items[k])
                                      ELSE <<Line("object", JsonText(items[k]), FALSE)>>])
       IN  jsonl' = [jsonl EXCEPT
                        !.lines = IF jsonl.append THEN @ \o content ELSE content,
                        !.exists = TRUE,
                        !.saves = Append(@, items),
                        !.calls = @ + 1,
                        !.last = "save"]

\* load: [] without a file; else the lines that are not empty, each parsed,
\* the ones that do not parse skipped.
JsonlLoad ==
    /\ jsonl.calls < MaxCalls
    /\ LET lines == SelectSeq(jsonl.lines, LAMBDA l : l.kind # "")
           parsed == SelectSeq([k \in 1..Len(lines) |-> JsonParseLine(lines[k])],
                               LAMBDA r : ~r.threw)
       IN  jsonl' = [jsonl EXCEPT
                        !.loaded = IF ~jsonl.exists THEN <<>>
                                   ELSE [k \in 1..Len(parsed) |-> parsed[k].item],
                        !.calls = @ + 1,
                        !.last = "load"]

\* clear: unlink the file if it exists.
JsonlClear ==
    /\ jsonl.calls < MaxCalls
    /\ jsonl' = [jsonl EXCEPT
                    !.lines = <<>>,
                    !.exists = FALSE,
                    !.saves = <<>>,
                    !.calls = @ + 1,
                    !.last = IF jsonl.exists THEN "clear" ELSE "clear of no file"]

NextJsonl ==
    \/ \E items \in SaveLists :
          JsonlSave(items) /\ UNCHANGED <<runVars, fnVars, px, db, net>>
    \/ JsonlLoad /\ UNCHANGED <<runVars, fnVars, px, db, net>>
    \/ JsonlClear /\ UNCHANGED <<runVars, fnVars, px, db, net>>

SpecJsonl == InitJsonl /\ [][NextJsonl]_vars

\* What load returned is the list of records expected.
LoadedIs(loaded, expected) ==
    /\ Len(loaded) = Len(expected)
    /\ \A k \in 1..Len(loaded) :
          loaded[k].kind = "object" /\ loaded[k].value = expected[k]

\* C18 as stated: whatever the options, a load that follows one save on an
\* empty store returns the records saved, in their order.
C18_SaveThenLoadReturnsRecords ==
    (jsonl.last = "load" /\ Len(jsonl.saves) = 1)
        => LoadedIs(jsonl.loaded, jsonl.saves[1])

\* What holds of save and load: the same, for an adapter without pretty.
CompactSaveThenLoad ==
    (jsonl.last = "load" /\ Len(jsonl.saves) = 1 /\ ~jsonl.pretty)
        => LoadedIs(jsonl.loaded, jsonl.saves[1])

\* C19 as stated: load returns the records of the last save since the last
\* clear (overwrite), of all the saves since the last clear in order (append),
\* and nothing when there was none; after clear there is no file.
C19_LoadAfterSavesAndClears ==
    /\ jsonl.last = "load" =>
          LoadedIs(jsonl.loaded,
                   IF jsonl.saves = <<>> THEN <<>>
                   ELSE IF jsonl.append THEN Flatten(jsonl.saves)
                   ELSE jsonl.saves[Len(jsonl.saves)])
    /\ jsonl.last \in {"clear", "clear of no file"} => ~jsonl.exists

\* What holds of the sequences of calls: the same, for an adapter without
\* pretty.
CompactLoadAfterSavesAndClears ==
    ~jsonl.pretty => C19_LoadAfterSavesAndClears

(***************************************************************************)
(* SqliteStorage (storage/sqlite.ts).  The table news_items is the list of *)
(* its rows in the order of their insertion; id is its primary key.        *)
(***************************************************************************)
\* The values bound by stmt.run: the lists and the metadata as JSON text,
\* the other columns as they are.
ToRow(item) ==
    [JsonText(item) EXCEPT !.tickers = [json |-> "array", elements |-> item.tickers],
                           !.topics = [json |-> "array", elements |-> item.topics]]

\* rows.map of load: JSON.parse of the three text columns.
FromRow(row) ==
    JsonObject([row EXCEPT !.tickers = row.tickers.elements,
                           !.topics = row.topics.elements])

\* InsertOrReplace leaving a row that has the id as it is (INSERT OR IGNORE).
InsertOrIgnore(rows, row) ==
    IF \E k \in 1..Len(rows) : rows[k].id = row.id THEN rows
    ELSE Append(rows, row)

\* INSERT OR REPLACE: the row that has the id is deleted, the new one inserted.
InsertOrReplace(rows, row) ==
    Append(SelectSeq(rows, LAMBDA r : r.id # row.id), row)

RECURSIVE InsertAll(_, _)
InsertAll(rows, items) ==
    IF items = <<>> THEN rows
    ELSE InsertAll(InsertOrReplace(rows, ToRow(Head(items))), Tail(items))

\* The order of the TEXT column published_at: the strings are compared
\* character by character, which for YYYY-MM-DDT00:00:00Z and
\* YYYY-MM-DDT00:00:00.000Z is the order of year, month and day as numbers;
\* the order of two strings of one day is left open.
TextAfter(a, b) ==
    \/ a.y > b.y
    \/ a.y = b.y /\ a.m > b.m
    \/ a.y = b.y /\ a.m = b.m /\ a.d > b.d

\* Two versions of one GDELT article (same url and category, so same id), a
\* feed item of the day of the first, one of another day, and an article
\* whose seendate has month 13.
RowV1 == transformArticle(GdeltArticle(<<"g", "/", "1">>, <<"H", "a", "c", "k">>,
                                       DateStr("gdelt", 2024, 1, 2)), Intel)
RowV2 == transformArticle(GdeltArticle(<<"g", "/", "1">>, <<"H", "a", "c", "k", "s">>,
                                       DateStr("gdelt", 2024, 1, 3)), Intel)
RowW == transformRSSItem(RssItem(<<"c", "/", "1">>, <<"N", "a", "t", "o">>, <<>>,
                                 Jan(2)), CSISFeed, Intel)
RowX == transformRSSItem(RssItem(<<"c", "/", "2">>, <<"F", "e", "d">>, <<>>,
                                 DateStr("iso", 2023, 12, 31)), CSISFeed, Intel)
RowY == transformArticle(GdeltArticle(<<"g", "/", "2">>, <<"x">>, Month13), Ai)

DbSaveLists ==
    {<<>>, <<RowV1>>, <<RowV2, RowW>>, <<RowW, RowX, RowV1>>, <<RowV1, RowV2>>,
     <<RowY, RowX>>}

InitSqlite ==
    /\ db = [rows |-> <<>>, saves |-> <<>>, calls |-> 0, loaded |-> <<>>,
             last |-> "none"]
    /\ InitRun(Idle) /\ IdleFn /\ IdlePx /\ IdleJsonl /\ IdleNet

\* save: one INSERT OR REPLACE per item, in the order of the list.
SqliteSave(items) ==
    /\ db.calls < MaxCalls
    /\ db' = [db EXCEPT !.rows = InsertAll(@, items),
                        !.saves = Append(@, items),
                        !.calls = @ + 1,
                        !.last = "save"]

\* load: SELECT * ... ORDER BY published_at DESC.  order is the order the
\* rows come in; the rows with one published_at come in any order.
SqliteLoad(order) ==
    /\ db.calls < MaxCalls
    /\ \A i, j \in 1..Len(db.rows) :
          /\ i # j => order[i] # order[j]
          /\ i < j => ~TextAfter(db.rows[order[j]].published_at,
                                 db.rows[order[i]].published_at)
    /\ db' = [db EXCEPT !.loaded = [k \in 1..Len(db.rows) |-> FromRow(db.rows[order[k]])],
                        !.calls = @ + 1,
                        !.last = "load"]

NextSqlite ==
    \/ \E items \in DbSaveLists :
          SqliteSave(items) /\ UNCHANGED <<runVars, fnVars, px, jsonl, net>>
    \/ \E order \in [1..Len(db.rows) -> 1..Len(db.rows)] :
          SqliteLoad(order) /\ UNCHANGED <<runVars, fnVars, px, jsonl, net>>

SpecSqlite == InitSqlite /\ [][NextSqlite]_vars

\* The items saved so far, oldest first, and the last one saved with an id.
SavedItems == Flatten(db.saves)
LatestSaved(id) ==
    SavedItems[CHOOSE k \in 1..Len(SavedItems) :
                  /\ SavedItems[k].id = id
                  /\ \A j \in (k + 1)..Len(SavedItems) : SavedItems[j].id # id]

TitleCyber ==
    <<"C", "y", "b", "e", "r", " ", "a", "t", "t", "a", "c", "k", " ", "o", "n", " ", "m", "i", "l", "i", "t", "a", "r", "y", " ", "b", "a", "s", "e">>
TitleRoutine ==
    <<"R", "o", "u", "t", "i", "n", "e", " ", "e", "a", "r", "n", "i", "n", "g", "s", " ", "r", "e", "p", "o", "r", "t">>
TitleTreaty ==
    <<"N", "u", "c", "l", "e", "a", "r", " ", "w", "e", "a", "p", "o", "n", "s", " ", "t", "r", "e", "a", "t", "y", " ", "s", "i", "g", "n", "e", "d">>

EnrichInputs ==
    {[family |-> "GDELT", category |-> c, source |-> CSISFeed,
      answer |-> GdeltArticle(u, t, d)] :
        c \in {Ai, Intel}, u \in {Url1, Url2},
        t \in {TitleCyber, TitleRoutine, TitleTreaty, TitleAb},
        d \in {DateStr("gdelt", 2024, 1, 2)}}

InitEnrich ==
    /\ fnIn \in [1..2 -> EnrichInputs]
    /\ fnCfg = NoFilter
    /\ fnOp = "none"
    /\ fnOut = <<>>
    /\ InitRun(Idle) /\ IdlePx /\ IdleJsonl /\ IdleDb /\ IdleNet

\* allItems = allItems.map(normalizeItem)
ApplyEnrich ==
    /\ fnOp = "transform"
    /\ fnOp' = "enrich"
    /\ fnOut' = [k \in 1..Len(fnOut) |-> normalizeItem(fnOut[k])]
    /\ UNCHANGED <<fnIn, fnCfg>>

NextEnrich ==
    \/ ApplyTransform /\ UNCHANGED <<runVars, ioVars>>
    \/ ApplyEnrich /\ UNCHANGED <<runVars, ioVars>>

SpecEnrich == InitEnrich /\ [][NextEnrich]_vars

\* C21 as stated: after enrichment the record of "Cyber attack on military
\* base" has the topics CYBER and DEFENSE and is no alert, and the record
\* of "Routine earnings report" has no topics.
C21_CyberAttackIsNoAlert ==
    fnOp = "enrich" =>
        \A k \in 1..Len(fnOut) :
            /\ fnIn[k].answer.title = TitleCyber =>
                  /\ Contains(fnOut[k].topics, "CYBER")
                  /\ Contains(fnOut[k].topics, "DEFENSE")
                  /\ fnOut[k].metadata.is_alert = FALSE
            /\ fnIn[k].answer.title = TitleRoutine => fnOut[k].topics = <<>>

\* C21: after enrichment the record of "Cyber attack on military base" has
\* the topics CYBER, CONFLICT and DEFENSE and is an alert with the keyword
\* military, the first of ALERT_KEYWORDS in its title; the record of
\* "Routine earnings report" has no topics and is no alert.
C21_CyberAttackIsAMilitaryAlert ==
    fnOp = "enrich" =>
        \A k \in 1..Len(fnOut) :
            /\ fnIn[k].answer.title = TitleCyber =>
                  /\ fnOut[k].topics = <<"CYBER", "CONFLICT", "DEFENSE">>
                  /\ fnOut[k].metadata.is_alert = TRUE
                  /\ fnOut[k].metadata.alert_keyword = <<"m", "i", "l", "i", "t", "a", "r", "y">>
            /\ fnIn[k].answer.title = TitleRoutine =>
                  /\ fnOut[k].topics = <<>>
                  /\ fnOut[k].metadata.is_alert = FALSE

\* The answer of the two articles, in this order, enriched.
C21_Witness ==
    /\ fnOp = "enrich"
    /\ Len(fnIn) = 2
    /\ fnIn[1].answer.title = TitleCyber
    /\ fnIn[2].answer.title = TitleRoutine
    /\ fnOut[1].metadata.is_alert
    /\ fnOut[2].topics = <<>>

(***************************************************************************)
(* The date parsers on their own.  The argument is the empty string, a     *)
(* string of neither form ("other"), or a string of the compact or the     *)
(* ISO form whose month and day fields are any two digits.                 *)
(***************************************************************************)
DateInputs ==
    {EmptyDate, DateStr("other", 0, 0, 0)}
    \cup {DateStr(form, y, m, d) :
            form \in {"gdelt", "iso"}, y \in {2023, 2024},
            m \in {0, 1, 2, 12, 13}, d \in {0, 1, 31, 32}}

InitDates ==
    /\ fnIn \in {<<dateStr>> : dateStr \in DateInputs}
    /\ fnCfg = NoFilter
    /\ fnOp = "none"
    /\ fnOut = <<>>
    /\ InitRun(Idle) /\ IdlePx /\ IdleJsonl /\ IdleDb /\ IdleNet

ApplyParseDate ==
    /\ fnOp = "none"
    /\ fnOp' = "parseDate"
    /\ fnOut' = <<parseDate(fnIn[1])>>
    /\ UNCHANGED <<fnIn, fnCfg>>

ApplyParseGdeltDate ==
    /\ fnOp = "none"
    /\ fnOp' = "parseGdeltDate"
    /\ fnOut' = <<parseGdeltDate(fnIn[1])>>
    /\ UNCHANGED <<fnIn, fnCfg>>

ApplyParseRssDate ==
    /\ fnOp = "none"
    /\ fnOp' = "parseRssDate"
    /\ fnOut' = <<parseRssDate(fnIn[1])>>
    /\ UNCHANGED <<fnIn, fnCfg>>

NextDates ==
    \/ ApplyParseDate /\ UNCHANGED <<runVars, ioVars>>
    \/ ApplyParseGdeltDate /\ UNCHANGED <<runVars, ioVars>>
    \/ ApplyParseRssDate /\ UNCHANGED <<runVars, ioVars>>

SpecDates == InitDates /\ [][NextDates]_vars

\* C22 as stated: whatever its argument, each of the three parsers returns
\* a timestamp that parses as a valid date.
C22_ParsersReturnValidDates ==
    fnOp \in {"parseDate", "parseGdeltDate", "parseRssDate"}
        => ~IsNaN(getTime(fnOut[1]))

\* What holds: parseDate and parseRssDate return a valid date, the current
\* time when new Date does not parse the argument (and, for parseDate, its
\* compact form does not either); parseGdeltDate returns a valid date for
\* every argument that is not of the compact form.
ParsersThatCheckTheDate ==
    /\ fnOp \in {"parseDate", "parseRssDate"} => ~IsNaN(getTime(fnOut[1]))
    /\ (fnOp = "parseGdeltDate" /\ fnIn[1].form # "gdelt")
          => ~IsNaN(getTime(fnOut[1]))
    /\ (fnOp = "parseRssDate" /\ DateToISOString(fnIn[1]).threw)
          => fnOut[1] = NowIso

(***************************************************************************)
(* extractSummary on its own.  The content is a text of at most MaxText    *)
(* characters over a letter, a full stop and a space, or one of a few      *)
(* texts with the other terminators and with markup; maxLength is 4 or 5.  *)
(***************************************************************************)
MaxText == 7

SummaryTexts ==
    UNION {[1..n -> {"a", ".", " "}] : n \in 0..MaxText}
    \cup {<<"a", "a", "?", "a", "!", "a", "a">>,
          <<"a", "?", "a", ".", "a", "a">>,
          <<"<", "b", ">", "a", "a", "a", "!", "a", "a">>,
          <<"a", "a", "&", "a", "m", "p", ";", ".", "a", "a">>}

InitSummary ==
    /\ fnIn \in {<<[content |-> text, maxLength |-> n]>> :
                    text \in SummaryTexts, n \in {4, 5}}
    /\ fnCfg = NoFilter
    /\ fnOp = "none"
    /\ fnOut = <<>>
    /\ InitRun(Idle) /\ IdlePx /\ IdleJsonl /\ IdleDb /\ IdleNet

ApplyExtractSummary ==
    /\ fnOp = "none"
    /\ fnOp' = "extractSummary"
    /\ fnOut' = <<extractSummary(fnIn[1].content, fnIn[1].maxLength)>>
    /\ UNCHANGED <<fnIn, fnCfg>>

NextSummary == ApplyExtractSummary /\ UNCHANGED <<runVars, ioVars>>

SpecSummary == InitSummary /\ [][NextSummary]_vars

\* The last of the first n characters of s that is in chars, counted from
\* 0 as the code counts; -1 when there is none.
LastOf(s, n, chars) ==
    LET hits == {i \in 1..n : i <= Len(s) /\ s[i] \in chars}
    IN  IF hits = {} THEN -1 ELSE (CHOOSE i \in hits : \A j \in hits : j <= i) - 1

PrefixOf(s, k) == SubSeq(s, 1, k)

\* C23: the summary is the cleaned text when that has at most maxLength
\* characters; else the cleaned text up to and with its last terminator
\* among the first maxLength characters, when that one lies beyond
\* maxLength * 0.5; else the text before its last space among them and the
\* ellipsis, when that space lies beyond maxLength * 0.7; else the first
\* maxLength characters and the ellipsis.  It has at most maxLength + 3
\* characters and is a prefix of the cleaned text, or one and the ellipsis.
C23_SummaryCutsAtSentenceThenWord ==
    fnOp = "extractSummary" =>
        LET clean == cleanText(fnIn[1].content)
            n == fnIn[1].maxLength
            out == fnOut[1]
            terminator == LastOf(clean, n, {".", "?", "!"})
            space == LastOf(clean, n, {" "})
        IN  /\ IF Len(clean) <= n THEN out = clean
               ELSE IF 2 * terminator > n THEN out = PrefixOf(clean, terminator + 1)
               ELSE IF 10 * space > 7 * n THEN out = PrefixOf(clean, space) \o Ellipsis
               ELSE out = PrefixOf(clean, n) \o Ellipsis
            /\ Len(out) <= n + 3
            /\ \E k \in 0..Len(clean) :
                  out = PrefixOf(clean, k) \/ out = PrefixOf(clean, k) \o Ellipsis

\* A text cut after its fourth character, a question mark that follows a
\* space: the space is not beyond maxLength * 0.7, the terminator is beyond
\* maxLength * 0.5.
C23_Witness ==
    /\ fnOp = "extractSummary"
    /\ fnIn[1] = [content |-> <<"a", "?", "a", ".", "a", "a">>, maxLength |-> 5]
    /\ fnOut[1] = <<"a", "?", "a", ".">>

(***************************************************************************)
(* The fetch stage at its suspension points (runPipeline 155-201 with      *)
(* fetchAllGdelt, fetchAllRSS, fetchRSSCategory, fetchIntelFeeds,          *)
(* fetchGdeltCategory and fetchWithProxy).  A step is what runs between    *)
(* two awaits; the awaits are delay(...), fetch(...) and response.text().  *)
(* A request is named by its number, and so are the AbortController and    *)
(* the timer made for it.  The three families are enabled, the categories  *)
(* are among those with a query and with feeds, and the first MaxNetIntel  *)
(* sources of INTEL_SOURCES are requested.                                 *)
(***************************************************************************)
MaxNetIntel == 2

\* A run meets at most MaxFaults requests that do not give a text.
MaxFaults == 2

NoSource == [name |-> <<>>, type |-> Undefined]

NetInputs ==
    {[categories |-> <<Ai>>, corsProxies |-> <<>>],
     [categories |-> <<Ai>>, corsProxies |-> <<"proxy1", "proxy2">>],
     [categories |-> <<Intel, Ai>>, corsProxies |-> <<>>]}

\* The sources a run may request.
NetTargets ==
    {[family |-> "GDELT", category |-> c, source |-> NoSource] : c \in {Ai, Intel}}
    \cup {[family |-> "RSS", category |-> c, source |-> FEEDS(c)[x]] :
            c \in {Ai, Intel}, x \in 1..2}
    \cup {[family |-> "Intel", category |-> Intel, source |-> INTEL_SOURCES[x]] :
            x \in 1..MaxNetIntel}

\* The records of a source whose request succeeded.
NetRecords(target) ==
    CASE target.family = "GDELT" -> GdeltRecords[target.category]
      [] target.family = "RSS" -> RssRecords[<<target.category, target.source>>]
      [] target.family = "Intel" ->
            LET items == RssRecords[<<Intel, target.source>>]
            IN  [n \in 1..Len(items) |-> WithIntelType(items[n], target.source)]

\* served: the records each source gives when its request succeeds.
\* at: "top" (in a loop, between two awaits), "headers" (await fetch),
\* "body" (await response.text()).  body: whether the endpoint goes on to
\* send the whole body.  trace, succeeded, fired and aborted are history:
\* fired holds <<t, r>> when the timer of t fired during request r, aborted
\* holds it when the request r ended by it.
InitNet ==
    /\ \E in \in NetInputs :
          net = [categories |-> in.categories, corsProxies |-> in.corsProxies,
                 fam |-> "GDELT", i |-> 1, j |-> 1, k |-> 1,
                 at |-> "top", delayed |-> FALSE, body |-> "none",
                 sent |-> 0, faults |-> 0, inflight |-> {}, timers |-> {},
                 items |-> <<>>, allItems |-> <<>>,
                 trace |-> <<>>, succeeded |-> {}, fired |-> {}, aborted |-> {},
                 served |-> [t \in NetTargets |-> NetRecords(t)]]
    /\ InitRun(Idle) /\ IdleFn /\ IdlePx /\ IdleJsonl /\ IdleDb

NetProxies == ProxyList(net.corsProxies)

\* The source the loops are at.
NetInLoop ==
    CASE net.fam \in {"GDELT", "RSS"} -> net.i <= Len(net.categories)
      [] net.fam = "Intel" -> net.i <= MaxNetIntel
      [] OTHER -> FALSE

NetTarget ==
    CASE net.fam = "GDELT" ->
            [family |-> "GDELT", category |-> net.categories[net.i],
             source |-> NoSource]
      [] net.fam = "RSS" ->
            [family |-> "RSS", category |-> net.categories[net.i],
             source |-> FEEDS(net.categories[net.i])[net.j]]
      [] net.fam = "Intel" ->
            [family |-> "Intel", category |-> Intel,
             source |-> INTEL_SOURCES[net.i]]

\* if (i > 0) of fetchAllGdelt, fetchRSSCategory and fetchIntelFeeds
NetDelayDue ==
    CASE net.fam = "RSS" -> net.j > 1
      [] OTHER -> net.i > 1

\* The loops go on to the next source: allItems.push(...items) with the
\* records the request gave (none when it failed).
NetNextSource(n, ok) ==
    LET lastFeed == n.j = Len(FEEDS(n.categories[n.i]))
    IN  [n EXCEPT
            !.items = IF ok THEN @ \o n.served[NetTarget] ELSE @,
            !.succeeded = IF ok THEN @ \cup {NetTarget} ELSE @,
            !.i = IF n.fam = "RSS" /\ ~lastFeed THEN @ ELSE @ + 1,
            !.j = IF n.fam = "RSS" /\ ~lastFeed THEN @ + 1 ELSE 1,
            !.k = 1,
            !.at = "top", !.delayed = FALSE, !.body = "none"]

\* A request ended without a text: fetchGdeltCategory returns [];
\* fetchWithProxy goes on with the next proxy, and returns null after the
\* last.
NetRequestFailed(n) ==
    IF n.fam # "GDELT" /\ n.k < Len(NetProxies)
    THEN [n EXCEPT !.k = @ + 1, !.at = "top", !.body = "none", !.faults = @ + 1]
    ELSE NetNextSource([n EXCEPT !.faults = @ + 1], FALSE)

\* await delay(config.delayBetweenRequests)
NetDelay ==
    /\ net.at = "top" /\ NetInLoop
    /\ NetDelayDue /\ ~net.delayed
    /\ net' = [net EXCEPT !.delayed = TRUE,
                          !.trace = Append(@, [e |-> "delay"])]

\* new AbortController(), setTimeout(() => controller.abort(), timeout) and
\* fetch(fetchUrl, {signal: controller.signal})
NetSend ==
    /\ net.at = "top" /\ NetInLoop
    /\ NetDelayDue => net.delayed
    /\ net' = [net EXCEPT
                  !.sent = @ + 1,
                  !.inflight = @ \cup {net.sent + 1},
                  !.timers = @ \cup {net.sent + 1},
                  !.at = "headers",
                  !.trace = Append(@, [e |-> "request", n |-> net.sent + 1,
                                       target |-> NetTarget, proxy |-> net.k])]

\* fetch resolves with a response: clearTimeout(timeoutId).  With a status
\* that is not ok, and for GDELT with a content type that is not JSON, the
\* code is done with the request; else it awaits the text, which the
\* endpoint sends to its end or does not.
NetResponse(status, body) ==
    /\ net.at = "headers"
    /\ \E r \in net.inflight :
          LET cleared == [net EXCEPT !.timers = @ \ {r}]
          IN  IF status = "ok"
              THEN /\ body = "stalled" => net.faults < MaxFaults
                   /\ net' = [cleared EXCEPT
                                 !.at = "body", !.body = body,
                                 !.faults = IF body = "stalled" THEN @ + 1 ELSE @]
              ELSE /\ body = "whole"
                   /\ net.faults < MaxFaults
                   /\ net.fam # "GDELT" => status = "http"
                   /\ net' = NetRequestFailed([cleared EXCEPT !.inflight = @ \ {r}])

\* fetch rejects (no connection): the catch is entered, and clearTimeout
\* is not reached.
NetFetchRejects ==
    /\ net.at = "headers"
    /\ net.faults < MaxFaults
    /\ \E r \in net.inflight :
          net' = NetRequestFailed([net EXCEPT !.inflight = @ \ {r}])

\* response.text() resolves: a text the code takes ("text": JSON with
\* articles, or XML), or one it does not (bad JSON or no articles; no XML).
NetBody(content) ==
    /\ net.at = "body" /\ net.body = "whole"
    /\ \E r \in net.inflight :
          LET ended == [net EXCEPT !.inflight = @ \ {r}]
          IN  IF content = "text"
              THEN net' = NetNextSource(ended, TRUE)
              ELSE /\ net.faults < MaxFaults
                   /\ net' = IF net.fam = "GDELT"
                             THEN NetNextSource([ended EXCEPT !.faults = @ + 1], FALSE)
                             ELSE NetRequestFailed(ended)

\* NetTimerFires with one controller for all requests: the timer aborts the
\* request in flight, whichever it is.
NetTimerFiresSharedController(t) ==
    /\ t \in net.timers
    /\ LET fired == [net EXCEPT !.timers = @ \ {t},
                                !.fired = @ \cup {<<t, r>> : r \in net.inflight}]
       IN  IF net.inflight # {}
           THEN /\ net.faults < MaxFaults
                /\ net' = NetRequestFailed(
                           [fired EXCEPT
                               !.inflight = {},
                               !.aborted = @ \cup {<<t, r>> : r \in net.inflight}])
           ELSE net' = fired

\* The timer of request t fires: controller.abort() of the controller of t.
\* The fetch of t, if it is still awaited, rejects with an AbortError,
\* which the catch takes as any other failure.
NetTimerFires(t) ==
    /\ t \in net.timers
    /\ LET fired == [net EXCEPT !.timers = @ \ {t},
                                !.fired = @ \cup {<<t, r>> : r \in net.inflight}]
       IN  IF t \in net.inflight
           THEN /\ net.faults < MaxFaults
                /\ net' = NetRequestFailed(
                           [fired EXCEPT !.inflight = @ \ {t},
                                         !.aborted = @ \cup {<<t, t>>}])
           ELSE net' = fired

\* NetReturn with the records of the connector put before those gathered.
NetReturnPutsFirst ==
    /\ net.at = "top" /\ net.fam \in {"GDELT", "RSS", "Intel"} /\ ~NetInLoop
    /\ net' = [net EXCEPT
                  !.allItems = net.items \o @,
                  !.items = <<>>,
                  !.fam = CASE net.fam = "GDELT" -> "RSS"
                            [] net.fam = "RSS" -> "Intel"
                            [] OTHER -> "done",
                  !.i = 1, !.j = 1, !.k = 1, !.delayed = FALSE]

\* A connector returns: allItems.push(...items) of runPipeline, and the
\* next family.
NetReturn ==
    /\ net.at = "top" /\ net.fam \in {"GDELT", "RSS", "Intel"} /\ ~NetInLoop
    /\ net' = [net EXCEPT
                  !.allItems = @ \o net.items,
                  !.items = <<>>,
                  !.fam = CASE net.fam = "GDELT" -> "RSS"
                            [] net.fam = "RSS" -> "Intel"
                            [] OTHER -> "done",
                  !.i = 1, !.j = 1, !.k = 1, !.delayed = FALSE]

NextNet ==
    \/ NetDelay /\ UNCHANGED <<runVars, fnVars, px, jsonl, db>>
    \/ NetSend /\ UNCHANGED <<runVars, fnVars, px, jsonl, db>>
    \/ \E status \in {"ok", "http", "content_type"}, body \in {"whole", "stalled"} :
          NetResponse(status, body) /\ UNCHANGED <<runVars, fnVars, px, jsonl, db>>
    \/ NetFetchRejects /\ UNCHANGED <<runVars, fnVars, px, jsonl, db>>
    \/ \E content \in {"text", "other"} :
          NetBody(content) /\ UNCHANGED <<runVars, fnVars, px, jsonl, db>>
    \/ \E t \in 1..net.sent :
          NetTimerFires(t) /\ UNCHANGED <<runVars, fnVars, px, jsonl, db>>
    \/ NetReturn /\ UNCHANGED <<runVars, fnVars, px, jsonl, db>>

SpecNet == InitNet /\ [][NextNet]_vars

\* The requests of the trace that are the first for their source (the ones
\* made through the first proxy).
SourceRequests ==
    {p \in 1..Len(net.trace) : net.trace[p].e = "request" /\ net.trace[p].proxy = 1}

DelayedRequest(p) == p > 1 /\ net.trace[p - 1].e = "delay"

\* C24 as stated: every request of a source that is not the first of its
\* family's fetch comes right after the delay.
C24_DelayBeforeEveryLaterSource ==
    \A p \in SourceRequests :
        (\E q \in SourceRequests :
            q < p /\ net.trace[q].target.family = net.trace[p].target.family)
        => DelayedRequest(p)

\* What holds: the delay comes before the request of every category of
\* fetchAllGdelt but the first, of every feed of a category but its first,
\* and of every intelligence source but the first; no request through a
\* later proxy and no first feed of a category is delayed.
DelayWithinEachLoop ==
    \A p \in 1..Len(net.trace) :
        net.trace[p].e = "request" =>
            LET target == net.trace[p].target
                first == CASE target.family = "GDELT" ->
                                target.category = net.categories[1]
                           [] target.family = "RSS" ->
                                target.source = FEEDS(target.category)[1]
                           [] target.family = "Intel" ->
                                target.source = INTEL_SOURCES[1]
            IN  DelayedRequest(p) <=> (net.trace[p].proxy = 1 /\ ~first)

\* The sources of a run in the order of their declaration: the categories
\* of GDELT as given, the feeds of each category in the order of FEEDS, the
\* sources of INTEL_SOURCES.
NetPlan ==
    LET cats == net.categories
    IN  [x \in 1..Len(cats) |->
            [family |-> "GDELT", category |-> cats[x], source |-> NoSource]]
        \o Flatten([x \in 1..Len(cats) |->
                      [y \in 1..Len(FEEDS(cats[x])) |->
                          [family |-> "RSS", category |-> cats[x],
                           source |-> FEEDS(cats[x])[y]]]])
        \o [x \in 1..MaxNetIntel |->
              [family |-> "Intel", category |-> Intel, source |-> INTEL_SOURCES[x]]]

PlanIndex(plan, target) == CHOOSE x \in 1..Len(plan) : plan[x] = target

NetRequests == {p \in 1..Len(net.trace) : net.trace[p].e = "request"}

\* The request before request p, 0 when p is the first.
RequestBefore(p) ==
    LET earlier == {q \in NetRequests : q < p}
    IN  IF earlier = {} THEN 0 ELSE CHOOSE q \in earlier : \A r \in earlier : r <= q

\* C25: no two requests are in flight together; the requests go through
\* the sources in the order GDELT, RSS, Intel and in the order of their
\* declaration, and through the proxies of a source in the order of the
\* list; the records gathered are those of the sources that gave some, in
\* that same order.
C25_OneRequestAtATimeInDeclaredOrder ==
    LET plan == NetPlan
        proxies == Len(NetProxies)
    IN  /\ Cardinality(net.inflight) <= 1
        /\ \A p \in NetRequests :
              LET this == net.trace[p]
                  q == RequestBefore(p)
              IN  IF q = 0 THEN this.target = plan[1] /\ this.proxy = 1
                  ELSE \/ /\ this.target = net.trace[q].target
                          /\ this.proxy = net.trace[q].proxy + 1
                          /\ this.proxy <= proxies
                       \/ /\ this.proxy = 1
                          /\ PlanIndex(plan, this.target)
                                = PlanIndex(plan, net.trace[q].target) + 1
        /\ net.allItems \o net.items
              = Flatten([x \in 1..Len(plan) |->
                            IF plan[x] \in net.succeeded
                            THEN net.served[plan[x]] ELSE <<>>])

\* A run with two proxies that has returned, with a request made through
\* the second proxy and records of the three families.
C25_Witness ==
    /\ net.fam = "done"
    /\ \E p \in NetRequests : net.trace[p].proxy = 2
    /\ \A f \in {"GDELT", "RSS", "Intel"} :
          \E t \in net.succeeded : t.family = f /\ net.served[t] # <<>>

\* The request with number r.
RequestOf(r) ==
    net.trace[CHOOSE p \in NetRequests : net.trace[p].n = r]

\* C26: a timer ends no request but the one it was armed for, whenever it
\* fires; the request after one that timed out goes to the next proxy of
\* the source when there is one (else the loops go on with the next source);
\* and a run that has returned has requested every one of its sources.
C26_TimeoutEndsOnlyItsOwnRequest ==
    /\ \A pair \in net.aborted : pair[1] = pair[2] /\ pair \in net.fired
    /\ \A pair \in net.fired : pair[1] = pair[2] => pair \in net.aborted
    /\ \A pair \in net.aborted :
          LET timedOut == RequestOf(pair[2])
              more == timedOut.target.family # "GDELT"
                        /\ timedOut.proxy < Len(NetProxies)
          IN  IF pair[2] < net.sent
              THEN IF more
                   THEN /\ RequestOf(pair[2] + 1).target = timedOut.target
                        /\ RequestOf(pair[2] + 1).proxy = timedOut.proxy + 1
                   ELSE /\ RequestOf(pair[2] + 1).proxy = 1
                        /\ PlanIndex(NetPlan, RequestOf(pair[2] + 1).target)
                              = PlanIndex(NetPlan, timedOut.target) + 1
              ELSE /\ net.at = "top"
                   /\ IF more THEN NetTarget = timedOut.target /\ net.k = timedOut.proxy + 1
                      ELSE \/ ~NetInLoop
                           \/ PlanIndex(NetPlan, NetTarget)
                                = PlanIndex(NetPlan, timedOut.target) + 1
    /\ net.fam = "done" =>
          \A x \in 1..Len(NetPlan) :
              \E p \in NetRequests : net.trace[p].target = NetPlan[x]

\* A run has returned in which a request timed out, and the timer of a
\* request that had failed fired during a later request, which went on and
\* gave the records of its source.
C26_Witness ==
    /\ net.fam = "done"
    /\ net.aborted # {}
    /\ \E pair \in net.fired :
          /\ pair[1] # pair[2]
          /\ RequestOf(pair[2]).target \in net.succeeded

\* ------------------------------------------------------------------------
\* The fetch stage under fair scheduling.  The steps of the code itself are
\* taken when they can be; a timer that is armed fires; a body that the
\* endpoint sends whole arrives; an endpoint that has used up its failures
\* answers.  What an endpoint does below that budget is left open: it may
\* never answer, and it may send headers and never the end of the body.

NetFairness ==
    /\ WF_vars(NetDelay /\ UNCHANGED <<runVars, fnVars, px, jsonl, db>>)
    /\ WF_vars(NetSend /\ UNCHANGED <<runVars, fnVars, px, jsonl, db>>)
    /\ WF_vars(NetReturn /\ UNCHANGED <<runVars, fnVars, px, jsonl, db>>)
    /\ WF_vars((\E t \in 1..net.sent : NetTimerFires(t))
                 /\ UNCHANGED <<runVars, fnVars, px, jsonl, db>>)
    /\ WF_vars((\E content \in {"text", "other"} : NetBody(content))
                 /\ UNCHANGED <<runVars, fnVars, px, jsonl, db>>)
    /\ WF_vars(net.faults = MaxFaults /\ NetResponse("ok", "whole")
                 /\ UNCHANGED <<runVars, fnVars, px, jsonl, db>>)

SpecNetFair == InitNet /\ [][NextNet]_vars /\ NetFairness

\* C27: every await of the fetch stage ends, by the answer of the endpoint
\* or by the timer of the request, so the stage returns whatever the
\* endpoints do.
C27_RunEventuallyReturns == <>(net.fam = "done")

\* What does hold: a run returns unless an endpoint has sent its headers
\* and does not end the body.  clearTimeout has run by then, and no timer
\* bounds the await of response.text().
ReturnsUnlessABodyStalls == <>(net.fam = "done" \/ net.body = "stalled")

\* While the request is awaited the timer is armed, and once the text is
\* awaited it is not: the timer bounds the first await only.
TimerArmedUntilHeaders ==
    \A r \in net.inflight :
        /\ net.at = "headers" => r \in net.timers
        /\ net.at = "body" => r \notin net.timers

\* ------------------------------------------------------------------------
\* runPipeline from the parse stage on: the fetch stage has gathered a list
\* of at most MaxLen records that the connectors built, one of them from a
\* feed item whose description is half the longest string long.  The
\* filter configurations are those filterItems takes without throwing.

\* transformRSSItem builds title, description and content into one text,
\* which fits; normalizeItem builds title, summary and content_text into
\* one, which holds the description twice and does not.
LongDescription == [k \in 1..(MaxStringLength \div 2) |-> "x"]

LongItem ==
    transformRSSItem(
        RssItem(<<"b", "/", "1">>, <<"F", "e", "d">>, LongDescription, Jan(1)),
        BrookingsFeed, Intel)

\* The title of the first record has two blanks in a row, which cleanText
\* makes one: its normalized form is another record.
ParsePool ==
    {transformArticle(
         GdeltArticle(<<"g", "/", "1">>, <<"A", "I", " ", " ", "b">>,
                      DateStr("gdelt", 2024, 1, 3)), Ai),
     transformArticle(
         GdeltArticle(<<"g", "/", "2">>, <<"F", "e", "d">>,
                      DateStr("gdelt", 2024, 1, 2)), Intel),
     transformRSSItem(
         RssItem(<<"o", "/", "1">>, <<"A", "I">>, <<"I", "r", "a", "n">>, Jan(2)),
         OpenAIBlog, Ai),
     LongItem}

ParseOptions ==
    [useGdelt : {TRUE}, useRss : {TRUE}, useIntel : {FALSE},
     categories : {[isNull |-> FALSE, list |-> <<Ai, Intel>>]},
     corsProxies : {<<>>},
     filter : {NoFilter,
               FilterConfig({"include_keywords"}, <<>>, <<>>, <<>>, 0),
               FilterConfig({"categories"}, <<Ai>>, <<>>, <<>>, 0)},
     storage : BOOLEAN]

\* fnIn keeps the list as the fetch stage left it.
InitParse ==
    /\ opts \in ParseOptions
    /\ fnIn \in UNION {[1..n -> ParsePool] : n \in 0..MaxLen}
    /\ allItems = fnIn
    /\ pc = "parse"
    /\ conn = NoConn
    /\ errors = <<>>
    /\ stats = [fetched |-> 0, parsed |-> 0, filtered |-> 0, deduplicated |-> 0]
    /\ stages = <<"fetch">>
    /\ saved = <<>>
    /\ requested = {}
    /\ fams = [f \in Families |-> [status |-> "pending", count |-> 0]]
    /\ fnCfg = NoFilter /\ fnOp = "none" /\ fnOut = <<>>
    /\ IdlePx /\ IdleJsonl /\ IdleDb /\ IdleNet

NextParse ==
    \/ Parse /\ UNCHANGED <<fnVars, ioVars>>
    \/ ParseThrows /\ UNCHANGED <<fnVars, ioVars>>
    \/ FilterSkip /\ UNCHANGED <<fnVars, ioVars>>
    \/ FilterRun /\ UNCHANGED <<fnVars, ioVars>>
    \/ Dedup /\ UNCHANGED <<fnVars, ioVars>>
    \/ Sort /\ UNCHANGED <<fnVars, ioVars>>
    \/ StoreSkip /\ UNCHANGED <<fnVars, ioVars>>
    \/ StoreSave /\ UNCHANGED <<fnVars, ioVars>>
    \/ StoreSaveThrows /\ UNCHANGED <<fnVars, ioVars>>

SpecParse == InitParse /\ [][NextParse]_vars

ParseFailed == \E k \in 1..Len(errors) : errors[k].stage = "parse"

\* Every text of the connectors' answers in the other specifications is
\* short enough for normalizeItem.
AnswersAreShort ==
    /\ \A r \in FilterPool : ~normalizeItemThrows(r)
    /\ \A k \in 1..Len(allItems) :
          allItems[k] # LongItem => ~normalizeItemThrows(allItems[k])

\* C28: in the RunResult the number of records is what was fetched less
\* what the filter and the deduplication removed; nothing is counted as
\* filtered when the filter stage did not run; and parsed is fetched, or 0
\* when a parse error was recorded.
C28_StatsAgreeWithItems ==
    pc = "done" =>
        /\ stats.fetched = Len(fnIn)
        /\ Len(allItems) = stats.fetched - stats.filtered - stats.deduplicated
        /\ (\A k \in 1..Len(stages) : stages[k] # "filter") => stats.filtered = 0
        /\ stats.parsed = IF ParseFailed THEN 0 ELSE stats.fetched

\* A run has returned whose parse stage failed, whose filter removed a
\* record and whose deduplication removed another.
C28_Witness ==
    /\ pc = "done"
    /\ ParseFailed
    /\ stats.filtered > 0
    /\ stats.deduplicated > 0
    /\ Len(allItems) > 0

\* The same without a parse error, and with no filter stage.
C28_WitnessNoFilter ==
    /\ pc = "done"
    /\ ~ParseFailed
    /\ \A k \in 1..Len(stages) : stages[k] # "filter"
    /\ stats.parsed = 3
    /\ stats.deduplicated = 1

\* The stages a run goes through after the fetch stage.
StagesAfterFetch ==
    <<"fetch", "enrich">>
    \o (IF FilterEnabled THEN <<"filter">> ELSE <<>>)
    \o <<"dedup", "sort">>
    \o (IF opts.storage THEN <<"store">> ELSE <<>>)

\* C30: when normalizeItem throws for a record of the list, the parse stage
\* records one error, with stage parse and no source, replaces no record
\* and leaves stats.parsed 0; the filter, the deduplication, the sort and
\* the store then run on the records as they were fetched.
C30_EnrichIsAllOrNothing ==
    /\ pc # "parse" =>
          (ParseFailed <=> \E k \in 1..Len(fnIn) : normalizeItemThrows(fnIn[k]))
    /\ ParseFailed =>
          /\ \E k \in 1..Len(errors) :
                /\ errors[k].stage = "parse" /\ errors[k].source = Undefined
                /\ \A j \in 1..Len(errors) : errors[j].stage = "parse" => j = k
          /\ stats.parsed = 0
          /\ pc = "filter" => allItems = fnIn
          /\ pc = "done" =>
                /\ allItems = sortItems(deduplicateItems(
                                 IF FilterEnabled
                                 THEN filterItems(fnIn, opts.filter).items
                                 ELSE fnIn))
                /\ stages = StagesAfterFetch
                /\ opts.storage => saved = <<allItems>>

\* A run has returned whose parse stage failed on its last record: the
\* first record is in the result as it was fetched, which is not its
\* normalized form, and the result went through the filter and was stored.
C30_Witness ==
    /\ pc = "done"
    /\ ParseFailed
    /\ Len(fnIn) = MaxLen
    /\ normalizeItemThrows(fnIn[MaxLen])
    /\ ~normalizeItemThrows(fnIn[1])
    /\ normalizeItem(fnIn[1]) # fnIn[1]
    /\ \E k \in 1..Len(allItems) : allItems[k] = fnIn[1]
    /\ FilterEnabled /\ opts.storage
    /\ saved = <<allItems>>

\* The records the RSS family got in this run, and those of the Intel family.
RssFamilyRecords ==
    UNION {{RssRecords[cs][k] : k \in 1..Len(RssRecords[cs])} :
              cs \in {c \in RssSources :
                         /\ c[2].type = Undefined
                         /\ Request("RSS", c[1], c[2].name, "ok") \in requested}}

IntelFamilyRecords ==
    UNION {{WithIntelType(RssRecords[cs][k], cs[2]) : k \in 1..Len(RssRecords[cs])} :
              cs \in {c \in RssSources :
                         /\ c[2].type # Undefined
                         /\ Request("Intel", c[1], c[2].name, "ok") \in requested}}

\* C29: of a record that the RSS family and the Intel family both gave (the
\* same id, or the same title fingerprint), the copy of the Intel family is
\* not in the result: a record of the result with that id or that
\* fingerprint has no intel_type, and one of the two copies that is in the
\* result is the copy of the RSS family.
C29_RssCopySurvivesIntelCopy ==
    pc = "done" =>
        \A a \in RssFamilyRecords, b \in IntelFamilyRecords :
            SameId(a, b) \/ SameFingerprint(a, b) =>
                \A k \in 1..Len(allItems) :
                    /\ allItems[k] # normalizeItem(b)
                    /\ SameId(allItems[k], b) \/ SameFingerprint(allItems[k], b) =>
                          allItems[k].metadata.intel_type = Undefined
                    /\ SameId(allItems[k], b) => allItems[k] = normalizeItem(a)

\* A run has returned in which the feed of CSIS was read for the category
\* intel and as the first intelligence source, and its record is in the
\* result, without intel_type.
C29_Witness ==
    /\ pc = "done"
    /\ \E a \in RssFamilyRecords, b \in IntelFamilyRecords :
          /\ SameId(a, b)
          /\ b.metadata.intel_type = "think-tank"
          /\ \E k \in 1..Len(allItems) :
                allItems[k] = normalizeItem(a)
                  /\ allItems[k].metadata.intel_type = Undefined
    /\ stats.deduplicated > 0

====
